---- MODULE Spec2Model ----
(***************************************************************************)
(* Model of the tx task-storage engine: the Storage Port (BaseStorage),    *)
(* its three backends (FileStorage, SQLiteStorage, PostgresStorage) and    *)
(* the task lifecycle handlers of the tRPC router and of the CLI.          *)
(*                                                                         *)
(* The three backends are driven in lock-step by the same operations, so   *)
(* store[b] is the state backend b is in after the operation sequence.     *)
(* Strings the code inspects character by character (ids, prefixes, field  *)
(* values) are sequences of one-character strings.  An optional value is  *)
(* a set with at most one element: a "Task | null" result, and the         *)
(* optional arrays blocks and blockedBy ({} is undefined, {<<>>} is []).   *)
(* An optional object (completionInfo, canceledInfo, recurrence) is a      *)
(* boolean: present or not.                                                *)
(***************************************************************************)
EXTENDS Integers, Sequences, FiniteSets, TLC

VARIABLES store, clock, used, last, steps

vars == <<store, clock, used, last, steps>>

\* ------------------------------------------------------------------ bounds
MaxTasks == 2
MaxSteps == 3
MaxPortSteps == 3
MaxVersion == 2

\* ------------------------------------------------------------ vocabulary
Backends == {"file", "sqlite", "postgres"}

TaskStatus == {"active", "backlog", "completed", "canceled"}

NoStatus == "none"

IdPool == {<<"a", "a">>, <<"a", "b">>, <<"b", "a">>, <<"b", "b">>}

\* what a caller may type as an id prefix
PrefixInputs ==
  {<<>>, <<"a">>, <<"b">>, <<"A">>, <<"_">>, <<"%">>, <<"a", "_">>} \cup IdPool

Range(s) == {s[i] : i \in DOMAIN s}

IsPrefix(p, s) == Len(p) <= Len(s) /\ SubSeq(s, 1, Len(p)) = p

\* String.prototype.toLowerCase / SQL LOWER() on the model's alphabet
Lower(c) ==
  CASE c = "A" -> "a"
    [] c = "B" -> "b"
    [] c = "U" -> "u"
    [] c = "NULL" -> "null"
    [] c = "Project" -> "project"
    [] c = "Mood" -> "mood"
    [] c = "Home" -> "home"
    [] c = "Tx" -> "tx"
    [] OTHER -> c

LowerStr(s) == [i \in DOMAIN s |-> Lower(s[i])]

RECURSIVE LikeMatch(_, _, _)
\* SQL "s LIKE p": % is any run of characters, _ is any one character;
\* ci = TRUE compares letters ignoring case (SQLite's default LIKE)
LikeMatch(s, p, ci) ==
  IF p = <<>> THEN s = <<>>
  ELSE IF Head(p) = "%"
    THEN LikeMatch(s, Tail(p), ci) \/ (s /= <<>> /\ LikeMatch(Tail(s), p, ci))
    ELSE /\ s /= <<>>
         /\ \/ Head(p) = "_"
            \/ (IF ci THEN Lower(Head(s)) = Lower(Head(p)) ELSE Head(s) = Head(p))
         /\ LikeMatch(Tail(s), Tail(p), ci)

RECURSIVE FilterSeq(_, _)
\* Array.prototype.filter(x => x !== v)
FilterSeq(s, v) ==
  IF s = <<>> THEN <<>>
  ELSE IF Head(s) = v THEN FilterSeq(Tail(s), v)
  ELSE <<Head(s)>> \o FilterSeq(Tail(s), v)

Remove(f, k) == [x \in DOMAIN f \ {k} |-> f[x]]

\* an optional array read as an array: "x || []", "x?.includes(..)"
Arr(opt) == IF opt = {} THEN <<>> ELSE CHOOSE a \in opt : TRUE

\* ------------------------------------------------------------------ records
DEFAULT_INDEX ==
  [tasks |-> <<>>, byStatus |-> [s \in TaskStatus |-> 0], scopes |-> <<>>,
   subjectScopes |-> <<>>]

\* DEFAULT_SCHEMA: version 1; lastUpdated 0 stands for the moment the store
\* was initialised
FieldDefinition(aliases, category) == [aliases |-> aliases, category |-> category]

\* three of the core fields of DEFAULT_SCHEMA.fields, with their alias lists;
\* a field name is a sequence of words and of runs of whitespace (" ")
DefaultFields ==
  (<<"subject">> :> FieldDefinition({<<"project">>}, "core"))
  @@ (<<"energy">> :> FieldDefinition({<<"focus">>}, "core"))
  @@ (<<"deadline">> :> FieldDefinition({}, "core"))

DEFAULT_SCHEMA == [version |-> 1, lastUpdated |-> 0, fields |-> DefaultFields]

Task(id, status, blocks, blockedBy, recurrence, created) ==
  [id |-> id, status |-> status, completed |-> (status = "completed"),
   completionInfo |-> (status = "completed"), canceledInfo |-> (status = "canceled"),
   fields |-> <<>>, blocks |-> blocks, blockedBy |-> blockedBy,
   recurrence |-> recurrence, created |-> created]

EmptyStore ==
  [primary |-> <<>>, archive |-> <<>>, hasIndex |-> FALSE, index |-> DEFAULT_INDEX,
   hasSchema |-> FALSE, schema |-> DEFAULT_SCHEMA, currentScope |-> {},
   rows |-> <<>>, task_fields |-> {}]

\* SQLiteStorage.initialize / PostgresStorage.initialize insert the index row
\* and the schema row
InitStore(b) ==
  IF b = "file" THEN EmptyStore
  ELSE [EmptyStore EXCEPT !.hasIndex = TRUE, !.hasSchema = TRUE]

\* ------------------------------------------------------------ FileStorage
\* FileStorage.saveTask: one JSON document per task in the primary directory
FileStorage_saveTask(st, t) ==
  [st EXCEPT !.primary = (t.id :> t) @@ st.primary]

\* FileStorage.migrateTask
migrateTask(t) ==
  LET status == IF t.status = NoStatus
                  THEN (IF t.completed THEN "completed" ELSE "backlog")
                  ELSE t.status
  IN [t EXCEPT !.status = status, !.completed = (status = "completed")]

\* a loadTask that looks in the primary directory only
FileStorage_loadTask_NoArchive(st, id) ==
  IF id \in DOMAIN st.primary THEN {migrateTask(st.primary[id])} ELSE {}

\* FileStorage.loadTask: primary directory first, then the archive
FileStorage_loadTask(st, id) ==
  IF id \in DOMAIN st.primary THEN {migrateTask(st.primary[id])}
  ELSE IF id \in DOMAIN st.archive THEN {migrateTask(st.archive[id])}
  ELSE {}

FileStorage_loadIndex(st) == IF st.hasIndex THEN st.index ELSE DEFAULT_INDEX

FileStorage_saveIndex(st, index) == [st EXCEPT !.hasIndex = TRUE, !.index = index]

\* BaseStorage.removeTaskFromIndex
removeTaskFromIndex(st, id) ==
  LET index == FileStorage_loadIndex(st)
  IN FileStorage_saveIndex(st, [index EXCEPT !.tasks = FilterSeq(index.tasks, id)])

\* FileStorage.deleteTask: [st |-> store afterwards, ok |-> the returned flag]
FileStorage_deleteTask(st, id) ==
  IF id \in DOMAIN st.primary
    THEN [st |-> removeTaskFromIndex([st EXCEPT !.primary = Remove(st.primary, id)], id),
          ok |-> TRUE]
    ELSE [st |-> st, ok |-> FALSE]

\* FileStorage.archiveTask
FileStorage_archiveTask(st, t) ==
  [st EXCEPT !.archive = (t.id :> t) @@ st.archive,
             !.primary = Remove(st.primary, t.id)]

RECURSIVE FileStorage_loadTasks(_, _, _)
FileStorage_loadTasks(st, ids, includeCompleted) ==
  IF ids = <<>> THEN <<>>
  ELSE LET found == FileStorage_loadTask(st, Head(ids))
           rest == FileStorage_loadTasks(st, Tail(ids), includeCompleted)
       IN IF found = {} THEN rest
          ELSE LET task == CHOOSE t \in found : TRUE
               IN IF includeCompleted \/ (task.status /= "completed" /\ task.status /= "canceled")
                    THEN <<task>> \o rest
                    ELSE rest

\* FileStorage.loadAllTasks
FileStorage_loadAllTasks(st, includeCompleted) ==
  FileStorage_loadTasks(st, FileStorage_loadIndex(st).tasks, includeCompleted)

\* FileStorage.getAllTaskIds
FileStorage_getAllTaskIds(st) == FileStorage_loadIndex(st).tasks

\* BaseStorage.findTaskByPrefix (used by FileStorage)
BaseStorage_findTaskByPrefix(st, prefix) ==
  LET allIds == FileStorage_getAllTaskIds(st)
      Starts(id) == IsPrefix(prefix, id)
      matches == SelectSeq(allIds, Starts)
  IN IF Len(matches) = 1 THEN FileStorage_loadTask(st, matches[1]) ELSE {}

\* ---------------------------------------------------------- SQL adapters
\* the columns of the tasks table: no status column, no canceled-info column
TaskRow(t, archived) ==
  [id |-> t.id, completed |-> t.completed, completion_info |-> t.completionInfo,
   fields |-> t.fields, blocks |-> t.blocks, blocked_by |-> t.blockedBy,
   recurrence |-> t.recurrence, created |-> t.created, archived |-> archived]

\* a field value of null; the text String(value) gives for it ("null" is one
\* token) and the text String(value ?? "") gives for it
NullValue == <<"(null)">>

\* a field value that is the number 0, not the text "0"
ZeroValue == <<"(0)">>

\* a field value that is the array ["a", "b"]
ArrayValue == <<"[a,b]">>

\* Array.prototype.join(","), which String(array) gives as well
JoinComma(v) == <<"a", ",", "b">>

JsString(v) ==
  IF v = NullValue THEN <<"null">> ELSE IF v = ZeroValue THEN <<"0">>
  ELSE IF v = ArrayValue THEN JoinComma(v) ELSE v

\* Array.isArray(value) ? value.join(",") : String(value ?? "")
SqlString(v) ==
  IF v = ArrayValue THEN JoinComma(v)
  ELSE IF v = NullValue THEN <<>> ELSE IF v = ZeroValue THEN <<"0">> ELSE v

Falsy(v) == v = <<>> \/ v = NullValue \/ v = ZeroValue

\* the task_fields rows saveTask inserts for t: one per key of t.fields
FieldRows(t) ==
  {[task_id |-> t.id, field_name |-> n, field_value |-> SqlString(t.fields[n].value),
    normalized_value |-> IF t.fields[n].normalized /= <<>>
                           THEN t.fields[n].normalized
                           ELSE SqlString(t.fields[n].value)] : n \in DOMAIN t.fields}

\* SQLiteStorage.rowToTask / PostgresStorage.rowToTask
rowToTask(row) ==
  [id |-> row.id,
   status |-> IF row.completed THEN "completed" ELSE "backlog",
   completed |-> row.completed,
   completionInfo |-> row.completion_info, canceledInfo |-> FALSE,
   fields |-> row.fields, blocks |-> row.blocks, blockedBy |-> row.blocked_by,
   recurrence |-> row.recurrence, created |-> row.created]

RowIds(rows) == {rows[i].id : i \in DOMAIN rows}

RowOf(rows, id) == rows[CHOOSE i \in DOMAIN rows : rows[i].id = id]

\* SQLiteStorage.saveTask: INSERT OR REPLACE deletes the old row and inserts a
\* new one (a new rowid, at the end of the table), then rewrites the side rows
SQLiteStorage_saveTask(st, t) ==
  LET Others(r) == r.id /= t.id
  IN [st EXCEPT
        !.rows = Append(SelectSeq(st.rows, Others), TaskRow(t, FALSE)),
        !.task_fields = {f \in st.task_fields : f.task_id /= t.id} \cup FieldRows(t)]

\* PostgresStorage.saveTask: INSERT .. ON CONFLICT (id) DO UPDATE keeps the row
\* in place and keeps its created column, then rewrites the side rows
PostgresStorage_saveTask(st, t) ==
  LET new == TaskRow(t, FALSE)
      rows == IF t.id \in RowIds(st.rows)
                THEN [i \in DOMAIN st.rows |->
                        IF st.rows[i].id = t.id
                          THEN [new EXCEPT !.created = st.rows[i].created]
                          ELSE st.rows[i]]
                ELSE Append(st.rows, new)
  IN [st EXCEPT
        !.rows = rows,
        !.task_fields = {f \in st.task_fields : f.task_id /= t.id} \cup FieldRows(t)]

\* SQLiteStorage.loadTask / PostgresStorage.loadTask: archived rows included
SQL_loadTask(st, id) ==
  IF id \in RowIds(st.rows) THEN {rowToTask(RowOf(st.rows, id))} ELSE {}

\* SQLiteStorage.findTaskByPrefix (ci = TRUE: SQLite's LIKE ignores letter
\* case) / PostgresStorage.findTaskByPrefix (ci = FALSE)
SQL_findTaskByPrefix(st, prefix, ci) ==
  LET Match(r) == LikeMatch(r.id, prefix \o <<"%">>, ci) /\ ~r.archived
      rows == SelectSeq(st.rows, Match)
  IN IF Len(rows) = 1 THEN {rowToTask(rows[1])} ELSE {}

\* SQLiteStorage.loadIndex / saveIndex, PostgresStorage.loadIndex / saveIndex
SQL_loadIndex(st) == IF st.hasIndex THEN st.index ELSE DEFAULT_INDEX

\* UPDATE task_index SET data = ? WHERE id = 1
SQL_saveIndex(st, index) == IF st.hasIndex THEN [st EXCEPT !.index = index] ELSE st

\* SQLiteStorage.deleteTask / PostgresStorage.deleteTask; the side rows go
\* with the row (ON DELETE CASCADE)
SQL_deleteTask(st, id) ==
  IF id \in RowIds(st.rows)
    THEN LET Others(r) == r.id /= id
             st1 == [st EXCEPT !.rows = SelectSeq(st.rows, Others),
                               !.task_fields = {f \in st.task_fields : f.task_id /= id}]
             index == SQL_loadIndex(st1)
         IN [st |-> SQL_saveIndex(st1, [index EXCEPT !.tasks = FilterSeq(index.tasks, id)]),
             ok |-> TRUE]
    ELSE [st |-> st, ok |-> FALSE]

\* SQLiteStorage.archiveTask / PostgresStorage.archiveTask: a flag flip
SQL_archiveTask(st, t) ==
  [st EXCEPT !.rows = [i \in DOMAIN st.rows |->
                         IF st.rows[i].id = t.id
                           THEN [st.rows[i] EXCEPT !.archived = TRUE]
                           ELSE st.rows[i]]]

RECURSIVE InsertByCreatedDesc(_, _)
InsertByCreatedDesc(sorted, r) ==
  IF sorted = <<>> THEN <<r>>
  ELSE IF Head(sorted).created >= r.created
    THEN <<Head(sorted)>> \o InsertByCreatedDesc(Tail(sorted), r)
    ELSE <<r>> \o sorted

RECURSIVE OrderByCreatedDesc(_)
\* ORDER BY created DESC; rows with equal created keep their table order
OrderByCreatedDesc(rows) ==
  IF rows = <<>> THEN <<>>
  ELSE InsertByCreatedDesc(OrderByCreatedDesc(SubSeq(rows, 1, Len(rows) - 1)),
                           rows[Len(rows)])

MapRowToTask(rows) == [i \in DOMAIN rows |-> rowToTask(rows[i])]

\* SQLiteStorage.loadAllTasks: table order
SQLiteStorage_loadAllTasks(st, includeCompleted) ==
  LET Keep(r) == ~r.archived /\ (includeCompleted \/ ~r.completed)
  IN MapRowToTask(SelectSeq(st.rows, Keep))

\* PostgresStorage.loadAllTasks: ORDER BY created DESC
PostgresStorage_loadAllTasks(st, includeCompleted) ==
  LET Keep(r) == ~r.archived /\ (includeCompleted \/ ~r.completed)
  IN MapRowToTask(OrderByCreatedDesc(SelectSeq(st.rows, Keep)))

\* SQLiteStorage.getAllTaskIds / PostgresStorage.getAllTaskIds
SQL_getAllTaskIds(st) ==
  LET Live(r) == ~r.archived
      rows == SelectSeq(st.rows, Live)
  IN [i \in DOMAIN rows |-> rows[i].id]

\* ------------------------------------------------------- the Storage Port
saveTask(b, st, t) ==
  CASE b = "file" -> FileStorage_saveTask(st, t)
    [] b = "sqlite" -> SQLiteStorage_saveTask(st, t)
    [] b = "postgres" -> PostgresStorage_saveTask(st, t)

loadTask(b, st, id) ==
  IF b = "file" THEN FileStorage_loadTask(st, id) ELSE SQL_loadTask(st, id)

findTaskByPrefix(b, st, prefix) ==
  CASE b = "file" -> BaseStorage_findTaskByPrefix(st, prefix)
    [] b = "sqlite" -> SQL_findTaskByPrefix(st, prefix, TRUE)
    [] b = "postgres" -> SQL_findTaskByPrefix(st, prefix, FALSE)

deleteTask(b, st, id) ==
  IF b = "file" THEN FileStorage_deleteTask(st, id) ELSE SQL_deleteTask(st, id)

archiveTask(b, st, t) ==
  IF b = "file" THEN FileStorage_archiveTask(st, t) ELSE SQL_archiveTask(st, t)

loadAllTasks(b, st, includeCompleted) ==
  CASE b = "file" -> FileStorage_loadAllTasks(st, includeCompleted)
    [] b = "sqlite" -> SQLiteStorage_loadAllTasks(st, includeCompleted)
    [] b = "postgres" -> PostgresStorage_loadAllTasks(st, includeCompleted)

getAllTaskIds(b, st) ==
  IF b = "file" THEN FileStorage_getAllTaskIds(st) ELSE SQL_getAllTaskIds(st)

loadIndex(b, st) ==
  IF b = "file" THEN FileStorage_loadIndex(st) ELSE SQL_loadIndex(st)

saveIndex(b, st, index) ==
  IF b = "file" THEN FileStorage_saveIndex(st, index) ELSE SQL_saveIndex(st, index)

\* ------------------------------------------------------ schema, export, import
\* loadSchema's merge with the defaults: core fields the stored schema lacks
MergeDefaults(schema) ==
  [schema EXCEPT !.fields =
     [k \in DOMAIN schema.fields \cup DOMAIN DefaultFields |->
        IF k \in DOMAIN schema.fields THEN schema.fields[k] ELSE DefaultFields[k]]]

\* FileStorage.loadSchema: a missing schema file is created with the default
\* schema; [st |-> store afterwards, schema |-> the returned schema]
FileStorage_loadSchema(st, now) ==
  IF st.hasSchema THEN [st |-> st, schema |-> MergeDefaults(st.schema)]
  ELSE LET schema == [DEFAULT_SCHEMA EXCEPT !.lastUpdated = now]
       IN [st |-> [st EXCEPT !.hasSchema = TRUE, !.schema = schema], schema |-> schema]

\* FileStorage.saveSchema: stamps lastUpdated and writes the file
FileStorage_saveSchema(st, schema, now) ==
  [st EXCEPT !.hasSchema = TRUE, !.schema = [schema EXCEPT !.lastUpdated = now]]

\* SQLiteStorage.loadSchema / PostgresStorage.loadSchema: SELECT data FROM schema
SQL_loadSchema(st, now) ==
  IF st.hasSchema THEN [st |-> st, schema |-> MergeDefaults(st.schema)]
  ELSE [st |-> st, schema |-> [DEFAULT_SCHEMA EXCEPT !.lastUpdated = now]]

\* SQLiteStorage.saveSchema / PostgresStorage.saveSchema:
\* UPDATE schema SET data = ? WHERE id = 1
SQL_saveSchema(st, schema, now) ==
  IF st.hasSchema THEN [st EXCEPT !.schema = [schema EXCEPT !.lastUpdated = now]]
  ELSE st

loadSchema(b, st, now) ==
  IF b = "file" THEN FileStorage_loadSchema(st, now) ELSE SQL_loadSchema(st, now)

saveSchema(b, st, schema, now) ==
  IF b = "file" THEN FileStorage_saveSchema(st, schema, now)
  ELSE SQL_saveSchema(st, schema, now)

\* BaseStorage.exportAll: the dump it returns
exportAll(b, st, now) ==
  [tasks |-> loadAllTasks(b, st, TRUE), index |-> loadIndex(b, st),
   schema |-> loadSchema(b, st, now).schema]

\* the number of writes importAll makes for a dump
ImportLength(data) == Len(data.tasks) + 2

\* an importAll that writes the index first and the schema last
importAll_IndexFirst(b, st, data, k, now) ==
  IF k = 0 THEN saveIndex(b, st, data.index)
  ELSE IF k <= Len(data.tasks) THEN saveTask(b, st, data.tasks[k])
  ELSE IF k = Len(data.tasks) + 1 THEN saveSchema(b, st, data.schema, now)
  ELSE st

\* BaseStorage.importAll, one awaited write at a time: the store after the
\* write that follows k completed writes (schema, then each task, then index)
importAll(b, st, data, k, now) ==
  IF k = 0 THEN saveSchema(b, st, data.schema, now)
  ELSE IF k <= Len(data.tasks) THEN saveTask(b, st, data.tasks[k])
  ELSE IF k = Len(data.tasks) + 1 THEN saveIndex(b, st, data.index)
  ELSE st

\* ------------------------------------------------------------- queries
\* A date "YYYY-MM-DD" is one token (ten characters of the real string).
\* the time of day of the clock, as a token after the "T" of a date-time
Now == "12:00"
Past == "2020-01-01"
WeekStart == "2026-11-01"
Today == "2026-11-06"
Tomorrow == "2026-11-07"
WeekEnd == "2026-11-07"
Dates == {Past, WeekStart, Today, Tomorrow}

\* code-unit order of the model's alphabet (String < and >, SQL BINARY collation)
CharOrder ==
  <<"%", "0", Now, Past, WeekStart, Today, Tomorrow, "A", "B", "NULL", "T", "U", "_", "a", "b",
    "h", "null", "t", "this_week", "today", "true", "u">>

Ord(c) == CHOOSE i \in DOMAIN CharOrder : CharOrder[i] = c

RECURSIVE StrLess(_, _)
StrLess(x, y) ==
  IF y = <<>> THEN FALSE
  ELSE IF x = <<>> THEN TRUE
  ELSE IF Head(x) = Head(y) THEN StrLess(Tail(x), Tail(y))
  ELSE Ord(Head(x)) < Ord(Head(y))

StrLeq(x, y) == x = y \/ StrLess(x, y)

\* String.prototype.includes
Includes(s, q) == \E i \in 1..(Len(s) - Len(q) + 1) : SubSeq(s, i, i + Len(q) - 1) = q

RECURSIVE SplitT(_)
\* deadline.split("T")[0]
SplitT(s) ==
  IF s = <<>> \/ Head(s) = "T" THEN <<>> ELSE <<Head(s)>> \o SplitT(Tail(s))

\* substr(v, 1, 10) / LEFT(v, 10)
Substr10(s) ==
  IF s /= <<>> /\ Head(s) \in Dates THEN <<Head(s)>>
  ELSE SubSeq(s, 1, IF Len(s) < 10 THEN Len(s) ELSE 10)

NoSort == "none"
NoGroup == "none"
Undefined == -1

\* BaseStorage.isThisWeek
isThisWeek(deadline) ==
  LET deadlineDate == SplitT(deadline)
  IN StrLeq(<<WeekStart>>, deadlineDate) /\ StrLeq(deadlineDate, <<WeekEnd>>)

\* BaseStorage.isOverdue
isOverdue(deadline) ==
  LET deadlineDate == SplitT(deadline)
  IN IF deadlineDate = <<Today>> /\ "T" \in Range(deadline)
       THEN StrLess(deadline, <<Today, "T", Now>>)
       ELSE StrLess(deadlineDate, <<Today>>)

\* one filter of BaseStorage.applyFilters on one task
FilterMatches(task, filter) ==
  LET hasDeadline == "deadline" \in DOMAIN task.fields /\ ~Falsy(task.fields["deadline"].value)
      general ==
        IF filter.field = "completed" THEN task.completed = (filter.value = <<"true">>)
        ELSE IF filter.field \notin DOMAIN task.fields THEN filter.op = "not_exists"
        ELSE IF filter.op = "exists" THEN TRUE
        ELSE LET field == task.fields[filter.field]
                 fieldValue == LowerStr(IF field.normalized /= <<>>
                                          THEN field.normalized ELSE JsString(field.value))
                 queryValue == LowerStr(filter.value)
             IN CASE filter.op = "eq" -> fieldValue = queryValue
                  [] filter.op = "contains" -> Includes(fieldValue, queryValue)
                  [] filter.op = "startswith" -> IsPrefix(queryValue, fieldValue)
                  [] filter.op = "gt" -> StrLess(queryValue, fieldValue)
                  [] filter.op = "lt" -> StrLess(fieldValue, queryValue)
                  [] OTHER -> fieldValue = queryValue
  IN IF filter.field = "deadline"
       THEN IF ~hasDeadline THEN FALSE
            ELSE IF filter.value = <<"today">>
              THEN (IF filter.op = "eq"
                      THEN SplitT(task.fields["deadline"].value) = <<Today>>
                      ELSE FALSE)
            ELSE IF filter.value = <<"this_week">>
              THEN isThisWeek(task.fields["deadline"].value)
            ELSE general
       ELSE general

\* BaseStorage.applyFilters
applyFilters(tasks, filters) ==
  LET Pass(task) == \A i \in DOMAIN filters : FilterMatches(task, filters[i])
  IN SelectSeq(tasks, Pass)

\* String.prototype.localeCompare(a, b) < 0 on the model's alphabet: letters
\* compare ignoring case first, a lower-case letter before its upper-case form
LocaleLess(x, y) ==
  \/ StrLess(LowerStr(x), LowerStr(y))
  \/ (LowerStr(x) = LowerStr(y) /\ StrLess(y, x))

SortKey(task, sortField) ==
  IF sortField \in DOMAIN task.fields /\ ~Falsy(task.fields[sortField].value)
    THEN JsString(task.fields[sortField].value) ELSE <<>>

RECURSIVE InsertBySortKey(_, _, _)
InsertBySortKey(sorted, task, sortField) ==
  IF sorted = <<>> THEN <<task>>
  ELSE IF LocaleLess(SortKey(task, sortField), SortKey(Head(sorted), sortField))
    THEN <<task>> \o sorted
    ELSE <<Head(sorted)>> \o InsertBySortKey(Tail(sorted), task, sortField)

RECURSIVE applySorting(_, _)
\* BaseStorage.applySorting: a stable sort on the raw value's string
applySorting(tasks, sortField) ==
  IF tasks = <<>> THEN <<>>
  ELSE InsertBySortKey(applySorting(SubSeq(tasks, 1, Len(tasks) - 1), sortField),
                       tasks[Len(tasks)], sortField)

\* Array.prototype.slice(offset) then slice(0, limit); LIMIT / OFFSET
Paginate(tasks, offset, limit) ==
  LET dropped == IF offset = Undefined THEN tasks
                 ELSE SubSeq(tasks, offset + 1, Len(tasks))
  IN IF limit = Undefined THEN dropped
     ELSE SubSeq(dropped, 1, IF limit < Len(dropped) THEN limit ELSE Len(dropped))

\* the key applyGrouping files a task under
GroupKey(task, groupBy) ==
  IF groupBy \in DOMAIN task.fields /\ ~Falsy(task.fields[groupBy].value)
    THEN JsString(task.fields[groupBy].value)
    ELSE <<"ungrouped">>

\* BaseStorage.applyGrouping: key |-> the tasks with that key, in order
applyGrouping(tasks, groupBy) ==
  [k \in {GroupKey(tasks[i], groupBy) : i \in DOMAIN tasks} |->
     SelectSeq(tasks, LAMBDA t : GroupKey(t, groupBy) = k)]

\* "Apply grouping" of queryTasks; an absent grouped is the empty function
Grouped(tasks, query) ==
  IF query.groupBy /= NoGroup THEN applyGrouping(tasks, query.groupBy) ELSE <<>>

\* BaseStorage.queryTasks over the tasks loadAllTasks(true) returned
BaseStorage_queryTasks(all, query) ==
  LET statusFilter == IF query.hasStatus THEN query.status
                      ELSE IF query.includeCompleted THEN TaskStatus
                      ELSE {"active", "backlog"}
      Gate(t) == t.status \in statusFilter
      gated == SelectSeq(all, Gate)
      filtered == IF Len(query.filters) > 0 THEN applyFilters(gated, query.filters)
                  ELSE gated
      sorted == IF query.sort /= NoSort THEN applySorting(filtered, query.sort)
                ELSE filtered
      page == Paginate(sorted, query.offset, query.limit)
  IN [tasks |-> page, total |-> Len(sorted), grouped |-> Grouped(page, query),
      error |-> FALSE]

\* the task_fields rows a LEFT JOIN on (task_id, field_name) finds: one or none
Joined(st, id, name) ==
  {f \in st.task_fields : f.task_id = id /\ f.field_name = name}

\* the WHERE fragment SQLiteStorage.queryTasks / PostgresStorage.queryTasks
\* build for one filter, evaluated on one row; a comparison with NULL is not true
SQL_FilterMatches(st, row, filter) ==
  LET j == Joined(st, row.id, filter.field)
      f == CHOOSE x \in j : TRUE
  IN IF filter.field = "deadline"
       THEN IF filter.value = <<"today">>
              THEN j /= {} /\ Substr10(f.field_value) = <<Today>>
            ELSE IF filter.value = <<"this_week">>
              THEN /\ j /= {}
                   /\ StrLeq(<<WeekStart>>, Substr10(f.field_value))
                   /\ StrLeq(Substr10(f.field_value), <<WeekEnd>>)
            ELSE j /= {} /\ f.field_value = filter.value
     ELSE IF filter.field = "completed"
       THEN row.completed = (filter.value = <<"true">>)
     ELSE CASE filter.op = "eq" ->
                 j /= {} /\ LowerStr(f.normalized_value) = LowerStr(filter.value)
            [] filter.op = "contains" ->
                 j /= {} /\ LikeMatch(LowerStr(f.normalized_value),
                                      <<"%">> \o LowerStr(filter.value) \o <<"%">>, FALSE)
            [] filter.op = "startswith" ->
                 j /= {} /\ LikeMatch(LowerStr(f.normalized_value),
                                      LowerStr(filter.value) \o <<"%">>, FALSE)
            [] filter.op = "gt" -> j /= {} /\ StrLess(filter.value, f.normalized_value)
            [] filter.op = "lt" -> j /= {} /\ StrLess(f.normalized_value, filter.value)
            [] filter.op = "exists" -> j /= {}
            [] filter.op = "not_exists" -> j = {}
            [] OTHER -> TRUE

\* ORDER BY (SELECT normalized_value ...): r1 strictly before r2; a missing
\* value is NULL, which sorts first in SQLite and last in PostgreSQL
SQL_KeyLess(st, r1, r2, sortField, nullsFirst) ==
  LET j1 == Joined(st, r1.id, sortField)
      j2 == Joined(st, r2.id, sortField)
  IN IF j1 = {} THEN nullsFirst /\ j2 /= {}
     ELSE IF j2 = {} THEN ~nullsFirst
     ELSE StrLess((CHOOSE x \in j1 : TRUE).normalized_value,
                  (CHOOSE x \in j2 : TRUE).normalized_value)

RECURSIVE SQL_InsertByKey(_, _, _, _, _)
SQL_InsertByKey(st, sorted, r, sortField, nullsFirst) ==
  IF sorted = <<>> THEN <<r>>
  ELSE IF SQL_KeyLess(st, r, Head(sorted), sortField, nullsFirst)
    THEN <<r>> \o sorted
    ELSE <<Head(sorted)>> \o SQL_InsertByKey(st, Tail(sorted), r, sortField, nullsFirst)

RECURSIVE SQL_OrderByField(_, _, _, _)
SQL_OrderByField(st, rows, sortField, nullsFirst) ==
  IF rows = <<>> THEN <<>>
  ELSE SQL_InsertByKey(st,
         SQL_OrderByField(st, SubSeq(rows, 1, Len(rows) - 1), sortField, nullsFirst),
         rows[Len(rows)], sortField, nullsFirst)

\* SQLiteStorage.queryTasks (sqlite = TRUE) / PostgresStorage.queryTasks.
\* query.status is never read.  The count statement is run with the
\* parameter list that already holds the sort field, one more value than it
\* has placeholders, which both drivers reject; SQLite also rejects OFFSET
\* without LIMIT.  A rejected statement throws: error = TRUE, no result.
SQL_queryTasks(st, query, sqlite) ==
  LET Where(r) == /\ ~r.archived
                  /\ (query.includeCompleted \/ ~r.completed)
                  /\ \A i \in DOMAIN query.filters : SQL_FilterMatches(st, r, query.filters[i])
      selected == SelectSeq(st.rows, Where)
      ordered == IF query.sort /= NoSort
                   THEN SQL_OrderByField(st, selected, query.sort, sqlite)
                   ELSE OrderByCreatedDesc(selected)
      countFails == query.sort /= NoSort
      selectFails == sqlite /\ query.limit = Undefined /\ query.offset /= Undefined
  IN IF countFails \/ selectFails
       THEN [tasks |-> <<>>, total |-> 0, grouped |-> <<>>, error |-> TRUE]
       ELSE LET page == MapRowToTask(Paginate(ordered, query.offset, query.limit))
            IN [tasks |-> page, total |-> Len(selected),
                grouped |-> Grouped(page, query), error |-> FALSE]

queryTasks(b, st, query) ==
  CASE b = "file" -> BaseStorage_queryTasks(FileStorage_loadAllTasks(st, TRUE), query)
    [] b = "sqlite" -> SQL_queryTasks(st, query, TRUE)
    [] b = "postgres" -> SQL_queryTasks(st, query, FALSE)

DefaultQuery ==
  [hasStatus |-> FALSE, status |-> {}, includeCompleted |-> FALSE,
   filters |-> <<>>, sort |-> NoSort, limit |-> Undefined, offset |-> Undefined,
   groupBy |-> NoGroup]

\* ------------------------------------------------- Storage Port operations
\* what the last operation was, what it was given and what it returned
NoLast ==
  [op |-> "init", id |-> <<>>, task |-> {}, query |-> {},
   ok |-> [b \in Backends |-> FALSE], existed |-> [b \in Backends |-> FALSE],
   found |-> [b \in Backends |-> {}], result |-> [b \in Backends |-> <<>>],
   blocked |-> [b \in Backends |-> {}], calls |-> <<>>]

\* the tasks a caller hands to saveTask / archiveTask: every status, and the
\* two ends of a blocking relationship
PortTasks ==
  {Task(id, s, {}, {}, FALSE, 1) : id \in IdPool, s \in TaskStatus}
  \cup {Task(p[1], "active", {<<p[2]>>}, {}, FALSE, 1) :
          p \in {q \in IdPool \X IdPool : q[1] /= q[2]}}
  \cup {Task(p[1], "backlog", {}, {<<p[2]>>}, FALSE, 1) :
          p \in {q \in IdPool \X IdPool : q[1] /= q[2]}}

RECURSIVE DistinctSeqs(_)
\* the sequences without repetition over a set of ids
DistinctSeqs(S) ==
  {<<>>} \cup UNION {{<<x>> \o q : q \in DistinctSeqs(S \ {x})} : x \in S}

Stored(b) == {id \in IdPool : loadTask(b, store[b], id) /= {}}

TaskOf(b, id) == CHOOSE t \in loadTask(b, store[b], id) : TRUE

PortInit ==
  /\ store = [b \in Backends |-> InitStore(b)]
  /\ clock = 0
  /\ used = {}
  /\ last = NoLast
  /\ steps = 0

PortSaveTask ==
  \E t \in PortTasks :
    /\ steps < MaxPortSteps
    /\ t.id \in used \/ Cardinality(used) < MaxTasks
    /\ store' = [b \in Backends |-> saveTask(b, store[b], t)]
    /\ used' = used \cup {t.id}
    /\ last' = [NoLast EXCEPT !.op = "saveTask", !.id = t.id, !.task = {t}]
    /\ steps' = steps + 1
    /\ UNCHANGED clock

PortArchiveTask ==
  \E t \in PortTasks :
    /\ steps < MaxPortSteps
    /\ t.id \in used
    /\ store' = [b \in Backends |-> archiveTask(b, store[b], t)]
    /\ last' = [NoLast EXCEPT !.op = "archiveTask", !.id = t.id, !.task = {t}]
    /\ steps' = steps + 1
    /\ UNCHANGED <<clock, used>>

PortDeleteTask ==
  \E id \in IdPool :
    /\ steps < MaxPortSteps
    /\ id \in used
    /\ store' = [b \in Backends |-> deleteTask(b, store[b], id).st]
    /\ last' = [NoLast EXCEPT
                  !.op = "deleteTask", !.id = id,
                  !.ok = [b \in Backends |-> deleteTask(b, store[b], id).ok],
                  !.existed = [b \in Backends |-> id \in Stored(b)]]
    /\ steps' = steps + 1
    /\ UNCHANGED <<clock, used>>

PortSaveIndex ==
  \E ids \in DistinctSeqs(used) :
    /\ steps < MaxPortSteps
    /\ store' = [b \in Backends |->
                   saveIndex(b, store[b], [loadIndex(b, store[b]) EXCEPT !.tasks = ids])]
    /\ last' = [NoLast EXCEPT !.op = "saveIndex"]
    /\ steps' = steps + 1
    /\ UNCHANGED <<clock, used>>

PortNext == PortSaveTask \/ PortArchiveTask \/ PortDeleteTask \/ PortSaveIndex

SpecPort == PortInit /\ [][PortNext]_vars

\* ------------------------------------------------ Storage Port properties
\* C1: in every backend, saveTask(t) followed by loadTask(t.id) returns a task
\* equal to t in every field, with completed = (status = "completed").
C1_RoundTrip ==
  last.op = "saveTask" =>
    \A b \in Backends : \A t \in last.task :
      /\ loadTask(b, store[b], t.id) = {t}
      /\ \A r \in loadTask(b, store[b], t.id) : r.completed = (r.status = "completed")

\* what a caller can observe of backend b through the read operations
Observation(b) ==
  [loadTask |-> [id \in IdPool |-> loadTask(b, store[b], id)],
   findTaskByPrefix |-> [p \in PrefixInputs |-> findTaskByPrefix(b, store[b], p)],
   getAllTaskIds |-> getAllTaskIds(b, store[b]),
   loadAllTasks |-> [inc \in BOOLEAN |-> loadAllTasks(b, store[b], inc)],
   queryTasks |-> queryTasks(b, store[b], DefaultQuery)]

\* C2: the same sequence of saveTask, archiveTask, deleteTask and saveIndex on
\* an empty Flat-File store and an empty Embedded-SQL store leaves them
\* observationally equal.
C2_BackendEquivalence == Observation("file") = Observation("sqlite")

\* C6: in every backend, deleteTask(id) on an existing task returns true and
\* removes id from blocks and blockedBy of every other stored task.
C6_DeleteCascade ==
  last.op = "deleteTask" =>
    \A b \in Backends :
      last.existed[b] =>
        /\ last.ok[b]
        /\ \A o \in Stored(b) \ {last.id} :
             /\ last.id \notin Range(Arr(TaskOf(b, o).blocks))
             /\ last.id \notin Range(Arr(TaskOf(b, o).blockedBy))

\* the ids backend b lists as live
LiveIds(b) == Range(getAllTaskIds(b, store[b]))

\* C9: in every backend findTaskByPrefix(p) returns the task of the one live
\* id that starts with p, and not-found when no live id or several start with p.
C9_PrefixResolution ==
  \A b \in Backends : \A p \in PrefixInputs :
    LET matches == {id \in LiveIds(b) : IsPrefix(p, id)}
    IN findTaskByPrefix(b, store[b], p) =
         (IF Cardinality(matches) = 1
            THEN loadTask(b, store[b], CHOOSE id \in matches : TRUE)
            ELSE {})

\* ------------------------------------------------------- query fixtures
MaxLimit == 1

FixtureIds == <<<<"a", "a">>, <<"a", "b">>, <<"b", "a">>, <<"b", "b">>>>

Field(value, normalized) == [value |-> value, normalized |-> normalized]

\* the field maps of the four fixture tasks
FieldPatterns ==
  {[i \in 1..4 |-> <<>>],
   <<("priority" :> Field(<<"U">>, <<>>)),
     ("priority" :> Field(<<"h">>, <<"u">>)),
     ("priority" :> Field(<<"a">>, <<>>) @@ "deadline" :> Field(<<Today>>, <<>>)),
     <<>> >>,
   <<("deadline" :> Field(<<Past>>, <<>>)),
     ("deadline" :> Field(<<Tomorrow>>, <<>>)),
     ("priority" :> Field(NullValue, <<>>)),
     ("deadline" :> Field(<<Past>>, <<>>) @@ "priority" :> Field(ZeroValue, <<>>)) >>}

FixtureTask(i, status, fields) ==
  [Task(FixtureIds[i], status, {}, {}, FALSE, i) EXCEPT !.fields = fields]

RECURSIVE SaveAll(_, _, _, _)
\* saveTask of every fixture task in turn, archiveTask after it for a completed
\* or canceled one when archive is set (as complete and cancel do)
SaveAll(b, st, tasks, archive) ==
  IF tasks = <<>> THEN st
  ELSE LET t == Head(tasks)
           saved == saveTask(b, st, t)
           done == IF archive /\ t.status \in {"completed", "canceled"}
                     THEN archiveTask(b, saved, t) ELSE saved
       IN SaveAll(b, done, Tail(tasks), archive)

FixtureStore(b, tasks, archive) ==
  LET st == SaveAll(b, InitStore(b), tasks, archive)
  IN saveIndex(b, st, [loadIndex(b, st) EXCEPT !.tasks = FixtureIds])

Filter(field, op, value) == [field |-> field, op |-> op, value |-> value]

Queries ==
  {[DefaultQuery EXCEPT !.includeCompleted = inc] : inc \in BOOLEAN}
  \cup {[DefaultQuery EXCEPT !.hasStatus = TRUE, !.status = S] :
          S \in {{"active"}, {"backlog"}, {"canceled"}, {"completed"}, {"active", "backlog"}}}
  \cup {[DefaultQuery EXCEPT !.filters = <<Filter("priority", op, <<"U">>)>>] :
          op \in {"eq", "contains", "startswith", "gt", "lt", "exists", "not_exists"}}
  \cup {[DefaultQuery EXCEPT !.filters = <<Filter("priority", "eq", <<"NULL">>)>>]}
  \cup {[DefaultQuery EXCEPT !.filters = <<Filter("completed", "eq", v)>>,
                             !.includeCompleted = TRUE] : v \in {<<"true">>, <<"false">>}}
  \cup {[DefaultQuery EXCEPT !.filters = <<Filter("deadline", op, <<"today">>)>>] :
          op \in {"eq", "lt"}}
  \cup {[DefaultQuery EXCEPT !.filters = <<Filter(f, op, v)>>] :
          f \in {"priority", "deadline"}, op \in {"exists", "not_exists"},
          v \in {<<"U">>, <<"today">>}}
  \cup {[DefaultQuery EXCEPT !.sort = "priority"]}
  \cup {[DefaultQuery EXCEPT !.groupBy = "priority", !.includeCompleted = inc] :
          inc \in BOOLEAN}
  \cup {[DefaultQuery EXCEPT !.limit = l, !.offset = o] :
          l \in {Undefined} \cup 0..MaxLimit, o \in {Undefined} \cup 0..MaxLimit}

QueryInit ==
  \E statuses \in [1..4 -> TaskStatus], fields \in FieldPatterns, archive \in BOOLEAN :
    LET tasks == [i \in 1..4 |-> FixtureTask(i, statuses[i], fields[i])]
    IN /\ store = [b \in Backends |-> FixtureStore(b, tasks, archive)]
       /\ last = [NoLast EXCEPT !.op = "fixture", !.task = Range(tasks)]
       /\ clock = 4
       /\ used = Range(FixtureIds)
       /\ steps = 0

\* TaskRouter.list / IStorage.queryTasks with one query, on every backend
RunQuery ==
  \E q \in Queries :
    /\ last.op = "fixture"
    /\ last' = [last EXCEPT !.op = "queryTasks", !.query = {q},
                            !.result = [b \in Backends |-> queryTasks(b, store[b], q)]]
    /\ UNCHANGED <<store, clock, used, steps>>

\* IStorage.archiveTask given one of the saved fixture tasks
ArchiveSaved ==
  \E t \in last.task :
    /\ last.op = "fixture"
    /\ store' = [b \in Backends |-> archiveTask(b, store[b], t)]
    /\ last' = [NoLast EXCEPT !.op = "archiveSaved", !.id = t.id, !.task = {t},
                              !.found = [b \in Backends |-> loadTask(b, store[b], t.id)]]
    /\ UNCHANGED <<clock, used, steps>>

QueryNext == RunQuery \/ ArchiveSaved

SpecQuery == QueryInit /\ [][QueryNext]_vars

Ids(tasks) == {tasks[i].id : i \in DOMAIN tasks}

\* C3: the SQL adapters' queryTasks returns the same tasks, in the same order,
\* and the same total as the default in-memory queryTasks over the same
\* stored unarchived tasks.
C3_TranslatorEquivalence ==
  last.op = "queryTasks" =>
    \A q \in last.query :
      /\ last.result["sqlite"] =
           BaseStorage_queryTasks(SQLiteStorage_loadAllTasks(store["sqlite"], TRUE), q)
      /\ last.result["postgres"] =
           BaseStorage_queryTasks(PostgresStorage_loadAllTasks(store["postgres"], TRUE), q)

AllStatusesStored == {t.status : t \in last.task} = TaskStatus

\* C4: with tasks of all four statuses stored, queryTasks({}) returns exactly
\* the active and backlog tasks, in every backend.
C4_DefaultStatusGate ==
  (last.op = "queryTasks" /\ last.query = {DefaultQuery} /\ AllStatusesStored) =>
    \A b \in Backends :
      /\ ~last.result[b].error
      /\ Ids(last.result[b].tasks) =
           {t.id : t \in {x \in last.task : x.status \in {"active", "backlog"}}}
      /\ \A i \in DOMAIN last.result[b].tasks :
           last.result[b].tasks[i].status \in {"active", "backlog"}

\* C5: with an explicit status set S, queryTasks returns only tasks whose
\* status is in S, and every stored task with status in S that passes the
\* filters, in every backend.
C5_ExplicitStatusGate ==
  last.op = "queryTasks" =>
    \A q \in last.query :
      q.hasStatus =>
        \A b \in Backends :
          /\ ~last.result[b].error
          /\ Ids(last.result[b].tasks) =
               {t.id : t \in {x \in last.task :
                    /\ x.status \in q.status
                    /\ \A i \in DOMAIN q.filters : FilterMatches(x, q.filters[i])}}
          /\ \A i \in DOMAIN last.result[b].tasks :
               last.result[b].tasks[i].status \in q.status

\* ----------------------------------------------- task lifecycle handlers
\* One handler of the tRPC task router or of the CLI, run to completion on
\* backend b: [st |-> the store afterwards, found |-> the task it resolved].

\* what extractSemantics returned for one task: its seq, the seq it depends
\* on (Undefined: none) and whether it carries a recurrence descriptor
Extracted(seq, dependsOn, recurrence) ==
  [seq |-> seq, dependsOn |-> dependsOn, recurrence |-> recurrence, subject |-> {}]

\* String(value).toLowerCase().replace(/\s+/g, "_") of a subject or scope name
normalizeSubject(name) ==
  [i \in DOMAIN name |-> IF name[i] = " " THEN "_" ELSE Lower(name[i])]

\* addTasks (CLI), "Auto-assign subject to scope if we have both": currentScope
\* is config.currentScope, subject the extraction's subject field, if any
AutoAssign(index, currentScope, subject) ==
  IF currentScope = {} \/ subject = {} THEN index
  ELSE LET scope == CHOOSE c \in currentScope : TRUE
           subj == normalizeSubject(CHOOSE x \in subject : TRUE)
       IN IF subj \in DOMAIN index.subjectScopes THEN index
          ELSE LET mapped == [index EXCEPT !.subjectScopes = (subj :> scope) @@ @]
               IN IF scope \in DOMAIN index.scopes
                       /\ subj \notin Range(index.scopes[scope].subjects)
                    THEN [mapped EXCEPT !.scopes[scope].subjects = Append(@, subj)]
                    ELSE mapped

ExtractionOutputs ==
  {<<Extracted(0, Undefined, r)>> : r \in BOOLEAN}
  \cup {<<Extracted(0, Undefined, FALSE), Extracted(1, d, FALSE)>> : d \in {Undefined, 0}}

\* "Handle blocking relationship": the new task blocks the task the prefix
\* resolves to, which gets the new id pushed on its blockedBy and is saved
LinkBlocks(b, st, task, blocks) ==
  LET found == IF blocks = <<>> THEN {} ELSE findTaskByPrefix(b, st, blocks)
  IN IF found = {} THEN [st |-> st, task |-> task]
     ELSE LET blockedTask == CHOOSE t \in found : TRUE
          IN [st |-> saveTask(b, st, [blockedTask EXCEPT
                                        !.blockedBy = {Append(Arr(@), task.id)}]),
              task |-> [task EXCEPT !.blocks = {<<blockedTask.id>>}]]

RECURSIVE RouterCreateLoop(_, _, _, _, _, _)
\* taskRouter.create, "Create tasks from extracted data"
RouterCreateLoop(b, acc, extracted, ids, blocks, now) ==
  IF extracted = <<>> THEN acc
  ELSE LET task == Task(Head(ids), "backlog", {}, {}, Head(extracted).recurrence,
                        now + Len(acc.createdTasks) + 1)
           linked == IF acc.createdTasks = <<>>
                       THEN LinkBlocks(b, acc.st, task, blocks)
                       ELSE [st |-> acc.st, task |-> task]
       IN RouterCreateLoop(b,
            [st |-> saveTask(b, linked.st, linked.task),
             index |-> [acc.index EXCEPT !.tasks = Append(@, linked.task.id),
                                         !.byStatus["backlog"] = @ + 1],
             createdTasks |-> Append(acc.createdTasks, linked.task)],
            Tail(extracted), Tail(ids), blocks, now)

\* taskIdMap[seq]: the id of the last created task whose extraction has seq
HasSeq(extracted, seq) == \E k \in DOMAIN extracted : extracted[k].seq = seq

TaskIdMap(extracted, createdTasks, seq) ==
  LET k == CHOOSE j \in DOMAIN extracted :
             /\ extracted[j].seq = seq
             /\ \A m \in DOMAIN extracted : extracted[m].seq = seq => m <= j
  IN createdTasks[k].id

RECURSIVE RouterDependsLoop(_, _, _, _)
\* taskRouter.create, "Handle sequential dependencies between created tasks"
RouterDependsLoop(b, acc, extracted, i) ==
  IF i > Len(extracted) THEN acc
  ELSE IF extracted[i].dependsOn /= Undefined /\ HasSeq(extracted, extracted[i].dependsOn)
    THEN LET dependsOnId == TaskIdMap(extracted, acc.createdTasks, extracted[i].dependsOn)
             c1 == [acc.createdTasks EXCEPT ![i].blockedBy = {Append(Arr(@), dependsOnId)}]
             p == CHOOSE j \in DOMAIN c1 :
                    c1[j].id = dependsOnId /\ \A m \in DOMAIN c1 : c1[m].id = dependsOnId => j <= m
             c2 == [c1 EXCEPT ![p].blocks = {Append(Arr(@), c1[i].id)}]
         IN RouterDependsLoop(b,
              [acc EXCEPT !.st = saveTask(b, saveTask(b, acc.st, c2[p]), c2[i]),
                          !.createdTasks = c2],
              extracted, i + 1)
    ELSE RouterDependsLoop(b, acc, extracted, i + 1)

\* taskRouter.create
RouterCreate(b, st, extracted, ids, blocks, now) ==
  LET start == [st |-> st, index |-> loadIndex(b, st), createdTasks |-> <<>>]
      made == RouterCreateLoop(b, start, extracted, ids, blocks, now)
      linked == RouterDependsLoop(b, made, extracted, 1)
  IN [st |-> saveIndex(b, linked.st, linked.index), found |-> {}]

RECURSIVE CliCreateLoop(_, _, _, _, _, _)
\* addTasks (CLI): the new tasks are kept in memory and saved at the end
CliCreateLoop(b, acc, extracted, ids, blocks, now) ==
  IF extracted = <<>> THEN acc
  ELSE LET task == Task(Head(ids), "backlog", {}, {}, Head(extracted).recurrence,
                        now + Len(acc.createdTasks) + 1)
           linked == IF acc.createdTasks = <<>>
                       THEN LinkBlocks(b, acc.st, task, blocks)
                       ELSE [st |-> acc.st, task |-> task]
       IN CliCreateLoop(b,
            [st |-> linked.st,
             index |-> [AutoAssign(acc.index, acc.st.currentScope,
                                   Head(extracted).subject)
                          EXCEPT !.tasks = Append(@, linked.task.id),
                                 !.byStatus["backlog"] = @ + 1],
             createdTasks |-> Append(acc.createdTasks, linked.task)],
            Tail(extracted), Tail(ids), blocks, now)

PushNew(opt, x) == IF x \in Range(Arr(opt)) THEN {Arr(opt)} ELSE {Append(Arr(opt), x)}

RECURSIVE CliDependsLoop(_, _, _)
CliDependsLoop(createdTasks, extracted, i) ==
  IF i > Len(extracted) THEN createdTasks
  ELSE LET d == extracted[i].dependsOn
       IN IF d /= Undefined /\ d >= 0 /\ d < Len(createdTasks)
            THEN LET c1 == [createdTasks EXCEPT ![d + 1].blocks = PushNew(@, createdTasks[i].id)]
                     c2 == [c1 EXCEPT ![i].blockedBy = PushNew(@, c1[d + 1].id)]
                 IN CliDependsLoop(c2, extracted, i + 1)
            ELSE CliDependsLoop(createdTasks, extracted, i + 1)

RECURSIVE SaveTasks(_, _, _)
SaveTasks(b, st, tasks) ==
  IF tasks = <<>> THEN st ELSE SaveTasks(b, saveTask(b, st, Head(tasks)), Tail(tasks))

\* addTasks (CLI)
CliAddTasks(b, st, extracted, ids, blocks, now) ==
  LET start == [st |-> st, index |-> loadIndex(b, st), createdTasks |-> <<>>]
      made == CliCreateLoop(b, start, extracted, ids, blocks, now)
      createdTasks == CliDependsLoop(made.createdTasks, extracted, 1)
  IN [st |-> saveIndex(b, SaveTasks(b, made.st, createdTasks), made.index), found |-> {}]

\* taskRouter.createWithFields
RouterCreateWithFields(b, st, id, recurrence, blocks, now) ==
  LET index == loadIndex(b, st)
      linked == LinkBlocks(b, st, Task(id, "backlog", {}, {}, recurrence, now + 1), blocks)
  IN [st |-> saveIndex(b, saveTask(b, linked.st, linked.task),
                       [index EXCEPT !.tasks = Append(@, id)]),
      found |-> {}]

\* taskRouter.update: blocks / blockedBy replace the stored arrays when given
RouterUpdate(b, st, taskId, blocks, blockedBy) ==
  LET found == findTaskByPrefix(b, st, taskId)
      task == CHOOSE t \in found : TRUE
      t1 == IF blocks /= {} THEN [task EXCEPT !.blocks = blocks] ELSE task
      t2 == IF blockedBy /= {} THEN [t1 EXCEPT !.blockedBy = blockedBy] ELSE t1
  IN IF found = {} THEN [st |-> st, found |-> {}]
     ELSE [st |-> saveTask(b, st, t2), found |-> found]

\* "Update status counts": the old status loses one if it has any, the new
\* status gains one
StatusMoved(index, oldStatus, newStatus) ==
  LET dec == IF oldStatus /= NoStatus /\ index.byStatus[oldStatus] > 0
               THEN [index EXCEPT !.byStatus[oldStatus] = @ - 1]
               ELSE index
  IN [dec EXCEPT !.byStatus[newStatus] = @ + 1]

\* taskRouter.complete: sets completed and completionInfo, not status; the
\* recurrence copy keeps every other property of the task, its status, blocks
\* and blockedBy included.  (Tasks of this model carry no deadline field, so
\* the copy's deadline is not advanced.)
RouterComplete(b, st, taskId, nextId, now) ==
  LET found == findTaskByPrefix(b, st, taskId)
      task == [(CHOOSE t \in found : TRUE) EXCEPT !.completed = TRUE,
                                                   !.completionInfo = TRUE]
      index == loadIndex(b, st)
      nextTask == [task EXCEPT !.id = nextId, !.completed = FALSE,
                               !.completionInfo = FALSE, !.created = now + 1]
      st1 == IF task.recurrence THEN saveTask(b, st, nextTask) ELSE st
      index1 == IF task.recurrence THEN [index EXCEPT !.tasks = Append(@, nextId)]
                ELSE index
  IN IF found = {} THEN [st |-> st, found |-> {}]
     ELSE [st |-> saveIndex(b, archiveTask(b, saveTask(b, st1, task), task), index1),
           found |-> found]

\* completeTask (CLI): sets status as well; the recurrence copy starts in backlog
CliComplete(b, st, taskId, nextId, now) ==
  LET found == findTaskByPrefix(b, st, taskId)
      oldStatus == (CHOOSE t \in found : TRUE).status
      task == [(CHOOSE t \in found : TRUE) EXCEPT !.status = "completed",
                                                   !.completed = TRUE,
                                                   !.completionInfo = TRUE]
      index == StatusMoved(loadIndex(b, st), oldStatus, "completed")
      nextTask == [task EXCEPT !.id = nextId, !.status = "backlog",
                               !.completed = FALSE, !.completionInfo = FALSE,
                               !.created = now + 1]
      st1 == IF task.recurrence THEN saveTask(b, st, nextTask) ELSE st
      index1 == IF task.recurrence
                  THEN [index EXCEPT !.tasks = Append(@, nextId),
                                     !.byStatus["backlog"] = @ + 1]
                ELSE index
  IN IF found = {} THEN [st |-> st, found |-> {}]
     ELSE [st |-> saveIndex(b, archiveTask(b, saveTask(b, st1, task), task), index1),
           found |-> found]

RECURSIVE StripFromIndexed(_, _, _, _)
\* delete, first loop: every task of the index whose blockedBy has the id
StripFromIndexed(b, st, ids, taskId) ==
  IF ids = <<>> THEN st
  ELSE LET loaded == loadTask(b, st, Head(ids))
           t == CHOOSE x \in loaded : TRUE
           st1 == IF loaded /= {} /\ taskId \in Range(Arr(t.blockedBy))
                    THEN saveTask(b, st, [t EXCEPT
                                            !.blockedBy = {FilterSeq(Arr(@), taskId)}])
                    ELSE st
       IN StripFromIndexed(b, st1, Tail(ids), taskId)

RECURSIVE StripFromBlocked(_, _, _, _)
\* delete, second loop: every task named by task.blocks that has a blockedBy
StripFromBlocked(b, st, blocks, taskId) ==
  IF blocks = <<>> THEN st
  ELSE LET loaded == loadTask(b, st, Head(blocks))
           blocked == CHOOSE x \in loaded : TRUE
           st1 == IF loaded /= {} /\ blocked.blockedBy /= {}
                    THEN saveTask(b, st, [blocked EXCEPT
                                            !.blockedBy = {FilterSeq(Arr(@), taskId)}])
                    ELSE st
       IN StripFromBlocked(b, st1, Tail(blocks), taskId)

\* a delete that removes the task and leaves every other task as it is
RouterDelete_NoCascade(b, st, id) ==
  LET found == findTaskByPrefix(b, st, id)
      task == CHOOSE t \in found : TRUE
      loaded == loadIndex(b, st)
      index == [loaded EXCEPT !.tasks = FilterSeq(@, task.id)]
      deleted == deleteTask(b, st, task.id)
  IN IF found = {} THEN [st |-> st, found |-> {}, ok |-> FALSE]
     ELSE [st |-> saveIndex(b, deleted.st, index), found |-> found, ok |-> deleted.ok]

\* taskRouter.delete
RouterDelete(b, st, id) ==
  LET found == findTaskByPrefix(b, st, id)
      task == CHOOSE t \in found : TRUE
      loaded == loadIndex(b, st)
      index == [loaded EXCEPT !.tasks = FilterSeq(@, task.id)]
      st1 == StripFromIndexed(b, st, index.tasks, task.id)
      st2 == StripFromBlocked(b, st1, Arr(task.blocks), task.id)
      deleted == deleteTask(b, st2, task.id)
  IN IF found = {} THEN [st |-> st, found |-> {}, ok |-> FALSE]
     ELSE [st |-> saveIndex(b, deleted.st, index), found |-> found, ok |-> deleted.ok]


\* a delete that leaves the index as it was
CliDelete_KeepIndex(b, st, taskId) ==
  LET found == findTaskByPrefix(b, st, taskId)
      task == CHOOSE t \in found : TRUE
      index == loadIndex(b, st)
      st1 == StripFromIndexed(b, st, index.tasks, task.id)
      st2 == StripFromBlocked(b, st1, Arr(task.blocks), task.id)
      deleted == deleteTask(b, st2, task.id)
  IN IF found = {} THEN [st |-> st, found |-> {}, ok |-> FALSE]
     ELSE [st |-> saveIndex(b, deleted.st, index), found |-> found, ok |-> deleted.ok]

\* deleteTask (CLI)
CliDelete(b, st, taskId) ==
  LET found == findTaskByPrefix(b, st, taskId)
      task == CHOOSE t \in found : TRUE
      loaded == loadIndex(b, st)
      index == [loaded EXCEPT !.tasks = FilterSeq(@, task.id)]
      st1 == StripFromIndexed(b, st, index.tasks, task.id)
      st2 == StripFromBlocked(b, st1, Arr(task.blocks), task.id)
      deleted == deleteTask(b, st2, task.id)
  IN IF found = {} THEN [st |-> st, found |-> {}, ok |-> FALSE]
     ELSE [st |-> saveIndex(b, deleted.st, index), found |-> found, ok |-> deleted.ok]

\* taskRouter.activate / toBacklog and activateTask / backlogTask (CLI)
SetStatus(b, st, taskId, status) ==
  LET found == findTaskByPrefix(b, st, taskId)
      oldStatus == (CHOOSE t \in found : TRUE).status
      task == [(CHOOSE t \in found : TRUE) EXCEPT !.status = status, !.completed = FALSE]
      index == StatusMoved(loadIndex(b, st), oldStatus, status)
  IN IF found = {} THEN [st |-> st, found |-> {}]
     ELSE [st |-> saveIndex(b, saveTask(b, st, task), index), found |-> found]

RouterActivate(b, st, taskId) == SetStatus(b, st, taskId, "active")

CliActivate(b, st, taskId) == SetStatus(b, st, taskId, "active")

RouterToBacklog(b, st, taskId) == SetStatus(b, st, taskId, "backlog")

CliBacklog(b, st, taskId) == SetStatus(b, st, taskId, "backlog")

\* taskRouter.cancel
RouterCancel(b, st, taskId) ==
  LET found == findTaskByPrefix(b, st, taskId)
      oldStatus == (CHOOSE t \in found : TRUE).status
      task == [(CHOOSE t \in found : TRUE) EXCEPT !.status = "canceled",
                                                   !.completed = FALSE,
                                                   !.canceledInfo = TRUE]
      index == StatusMoved(loadIndex(b, st), oldStatus, "canceled")
  IN IF found = {} THEN [st |-> st, found |-> {}]
     ELSE [st |-> saveIndex(b, archiveTask(b, saveTask(b, st, task), task), index),
           found |-> found]

\* cancelTask (CLI)
CliCancel(b, st, taskId) ==
  LET found == findTaskByPrefix(b, st, taskId)
      oldStatus == (CHOOSE t \in found : TRUE).status
      task == [(CHOOSE t \in found : TRUE) EXCEPT !.status = "canceled",
                                                   !.completed = FALSE,
                                                   !.canceledInfo = TRUE]
      index == StatusMoved(loadIndex(b, st), oldStatus, "canceled")
  IN IF found = {} THEN [st |-> st, found |-> {}]
     ELSE [st |-> saveIndex(b, archiveTask(b, saveTask(b, st, task), task), index),
           found |-> found]

\* ------------------------------------------------- the task application
\* The tRPC task router and the CLI commands over one store per backend; every
\* request is given to the three backends alike.

\* the task references a caller types: a full id or a one-letter prefix
TaskRefs == {<<"a", "a">>, <<"b", "a">>, <<"a">>}

\* the arrays task.update is given for blocks or blockedBy
RefArrays == {{<<>>}, {<<<<"b", "a">>>>}}

\* randomUUID() never repeats an id; which unused id it returns does not matter
\* to the handlers, so the model hands the unused ids out in one fixed order
IdOrder == <<<<"a", "a">>, <<"b", "a">>, <<"a", "b">>, <<"b", "b">>>>

Unused == SelectSeq(IdOrder, LAMBDA id : id \notin used)

FreshIds(n) == IF n <= Len(Unused) THEN {SubSeq(Unused, 1, n)} ELSE {}

Applied(op, out) ==
  /\ store' = [b \in Backends |-> out[b].st]
  /\ last' = [NoLast EXCEPT !.op = op,
                            !.found = [b \in Backends |-> out[b].found]]
  /\ steps' = steps + 1

Init ==
  /\ store = [b \in Backends |-> InitStore(b)]
  /\ clock = 0
  /\ used = {}
  /\ last = NoLast
  /\ steps = 0

TaskCreate ==
  \E extracted \in ExtractionOutputs, blocks \in {<<>>} \cup TaskRefs :
    \E ids \in FreshIds(Len(extracted)) :
      /\ steps < MaxSteps
      /\ Cardinality(used) + Len(extracted) <= MaxTasks
      /\ Applied("task.create",
                 [b \in Backends |->
                    RouterCreate(b, store[b], extracted, ids, blocks, clock)])
      /\ used' = used \cup Range(ids)
      /\ clock' = clock + Len(extracted)

CmdAdd ==
  \E extracted \in ExtractionOutputs, blocks \in {<<>>} \cup TaskRefs :
    \E ids \in FreshIds(Len(extracted)) :
      /\ steps < MaxSteps
      /\ Cardinality(used) + Len(extracted) <= MaxTasks
      /\ Applied("addTasks",
                 [b \in Backends |->
                    CliAddTasks(b, store[b], extracted, ids, blocks, clock)])
      /\ used' = used \cup Range(ids)
      /\ clock' = clock + Len(extracted)

TaskCreateWithFields ==
  \E ids \in FreshIds(1), recurrence \in BOOLEAN, blocks \in {<<>>} \cup TaskRefs :
    /\ steps < MaxSteps
    /\ Cardinality(used) < MaxTasks
    /\ Applied("task.createWithFields",
               [b \in Backends |->
                  RouterCreateWithFields(b, store[b], ids[1], recurrence, blocks, clock)])
    /\ used' = used \cup {ids[1]}
    /\ clock' = clock + 1

TaskUpdate ==
  \E taskId \in TaskRefs, arr \in RefArrays, which \in {"blocks", "blockedBy"} :
    /\ steps < MaxSteps
    /\ Applied("task.update",
               [b \in Backends |->
                  RouterUpdate(b, store[b], taskId,
                               IF which = "blocks" THEN arr ELSE {},
                               IF which = "blockedBy" THEN arr ELSE {})])
    /\ UNCHANGED <<clock, used>>

\* some backend resolves the reference to a task with a recurrence descriptor
Recurs(taskId) ==
  \E b \in Backends : \E t \in findTaskByPrefix(b, store[b], taskId) : t.recurrence

TaskComplete ==
  \E taskId \in TaskRefs, next \in FreshIds(1) :
    /\ steps < MaxSteps
    /\ Recurs(taskId) => Cardinality(used) < MaxTasks
    /\ Applied("task.complete",
               [b \in Backends |-> RouterComplete(b, store[b], taskId, next[1], clock)])
    /\ used' = IF Recurs(taskId) THEN used \cup {next[1]} ELSE used
    /\ clock' = IF Recurs(taskId) THEN clock + 1 ELSE clock

CmdComplete ==
  \E taskId \in TaskRefs, next \in FreshIds(1) :
    /\ steps < MaxSteps
    /\ Recurs(taskId) => Cardinality(used) < MaxTasks
    /\ Applied("completeTask",
               [b \in Backends |-> CliComplete(b, store[b], taskId, next[1], clock)])
    /\ used' = IF Recurs(taskId) THEN used \cup {next[1]} ELSE used
    /\ clock' = IF Recurs(taskId) THEN clock + 1 ELSE clock

\* before a delete of A: the tasks B, other than A, that A.blocks names and
\* whose blockedBy names A
BlockedPairs(b, found) ==
  {B \in Stored(b) : \E A \in found :
     /\ B /= A.id
     /\ B \in Range(Arr(A.blocks))
     /\ A.id \in Range(Arr(TaskOf(b, B).blockedBy))}

TaskDelete ==
  \E id \in TaskRefs :
    /\ steps < MaxSteps
    /\ store' = [b \in Backends |-> RouterDelete(b, store[b], id).st]
    /\ last' = [NoLast EXCEPT
                  !.op = "task.delete",
                  !.found = [b \in Backends |-> RouterDelete(b, store[b], id).found],
                  !.ok = [b \in Backends |-> RouterDelete(b, store[b], id).ok],
                  !.blocked = [b \in Backends |->
                                 BlockedPairs(b, RouterDelete(b, store[b], id).found)]]
    /\ steps' = steps + 1
    /\ UNCHANGED <<clock, used>>

CmdDelete ==
  \E taskId \in TaskRefs :
    /\ steps < MaxSteps
    /\ store' = [b \in Backends |-> CliDelete(b, store[b], taskId).st]
    /\ last' = [NoLast EXCEPT
                  !.op = "deleteTask",
                  !.found = [b \in Backends |-> CliDelete(b, store[b], taskId).found],
                  !.ok = [b \in Backends |-> CliDelete(b, store[b], taskId).ok],
                  !.blocked = [b \in Backends |->
                                 BlockedPairs(b, CliDelete(b, store[b], taskId).found)]]
    /\ steps' = steps + 1
    /\ UNCHANGED <<clock, used>>

TaskActivate ==
  \E taskId \in TaskRefs :
    /\ steps < MaxSteps
    /\ Applied("task.activate",
               [b \in Backends |-> RouterActivate(b, store[b], taskId)])
    /\ UNCHANGED <<clock, used>>

CmdActivate ==
  \E taskId \in TaskRefs :
    /\ steps < MaxSteps
    /\ Applied("activateTask",
               [b \in Backends |-> CliActivate(b, store[b], taskId)])
    /\ UNCHANGED <<clock, used>>

TaskToBacklog ==
  \E taskId \in TaskRefs :
    /\ steps < MaxSteps
    /\ Applied("task.toBacklog",
               [b \in Backends |-> RouterToBacklog(b, store[b], taskId)])
    /\ UNCHANGED <<clock, used>>

CmdBacklog ==
  \E taskId \in TaskRefs :
    /\ steps < MaxSteps
    /\ Applied("backlogTask",
               [b \in Backends |-> CliBacklog(b, store[b], taskId)])
    /\ UNCHANGED <<clock, used>>

TaskCancel ==
  \E taskId \in TaskRefs :
    /\ steps < MaxSteps
    /\ Applied("task.cancel",
               [b \in Backends |-> RouterCancel(b, store[b], taskId)])
    /\ UNCHANGED <<clock, used>>

CmdCancel ==
  \E taskId \in TaskRefs :
    /\ steps < MaxSteps
    /\ Applied("cancelTask",
               [b \in Backends |-> CliCancel(b, store[b], taskId)])
    /\ UNCHANGED <<clock, used>>

Next ==
  \/ TaskCreate \/ CmdAdd \/ TaskCreateWithFields \/ TaskUpdate
  \/ TaskComplete \/ CmdComplete \/ TaskDelete \/ CmdDelete
  \/ TaskActivate \/ CmdActivate \/ TaskToBacklog \/ CmdBacklog
  \/ TaskCancel \/ CmdCancel

Spec == Init /\ [][Next]_vars

\* ------------------------------------------------ application properties
DeleteOps == {"task.delete", "deleteTask"}

CompleteOps == {"task.complete", "completeTask"}

\* C7: when a delete (tRPC task.delete or CLI deleteTask) has resolved a task A
\* whose blocks named another task B while B's blockedBy named A, then
\* afterwards B, as loadTask returns it, no longer has A's id in its
\* blockedBy; this holds in each of the three backends.
C7_NoDanglingOnDelete ==
  last.op \in DeleteOps =>
    \A b \in Backends : \A A \in last.found[b] : \A B \in last.blocked[b] :
      \A t \in loadTask(b, store[b], B) : A.id \notin Range(Arr(t.blockedBy))

\* a delete that found, in every backend, a task A blocking a task B that is
\* still stored afterwards
C7_DeletedBlocker ==
  /\ last.op \in DeleteOps
  /\ \A b \in Backends :
       /\ last.found[b] /= {}
       /\ last.blocked[b] /= {}
       /\ \A B \in last.blocked[b] : loadTask(b, store[b], B) /= {}

\* the mutations the symmetry invariant is stated for
RelationOps ==
  {"task.create", "addTasks", "task.createWithFields", "task.update",
   "task.cancel", "cancelTask"} \cup CompleteOps \cup DeleteOps

Symmetric(b) ==
  \A A \in Stored(b), B \in Stored(b) :
    B \in Range(Arr(TaskOf(b, A).blocks)) <=> A \in Range(Arr(TaskOf(b, B).blockedBy))

NoDanglingIds(b) ==
  \A A \in Stored(b) :
    Range(Arr(TaskOf(b, A).blocks)) \cup Range(Arr(TaskOf(b, A).blockedBy)) \subseteq Stored(b)

\* C8: after every mutation (create with --blocks or with sequential
\* dependsOn, task.update of blocks / blockedBy, complete with its recurrence
\* copy, cancel, delete), in every backend, A.blocks contains B.id exactly
\* when B.blockedBy contains A.id for all stored A and B, and every id in a
\* blocks / blockedBy array is the id of a stored task.
C8_RelationshipSymmetry ==
  last.op \in RelationOps => \A b \in Backends : Symmetric(b) /\ NoDanglingIds(b)

\* the lifecycle operations of the status / flag claim
LifecycleOps ==
  {"task.create", "addTasks", "task.createWithFields", "task.activate",
   "activateTask", "task.toBacklog", "backlogTask", "task.cancel", "cancelTask"}
  \cup CompleteOps

\* C10: after a lifecycle operation (create, createWithFields, activate,
\* toBacklog, complete, cancel; tRPC or CLI), every stored task, as loadTask
\* returns it, has completed = (status = "completed"); and after complete the
\* task that was completed has status "completed" and completed = TRUE.
C10_StatusFlagSync ==
  last.op \in LifecycleOps =>
    \A b \in Backends :
      /\ \A id \in Stored(b) :
           TaskOf(b, id).completed = (TaskOf(b, id).status = "completed")
      /\ last.op \in CompleteOps =>
           \A A \in last.found[b] : \A t \in loadTask(b, store[b], A.id) :
             t.status = "completed" /\ t.completed

\* C11: whenever a delete (tRPC task.delete or CLI deleteTask) has resolved a
\* task and so reports success, whether the task was in the primary area or
\* had been archived by complete / cancel, then in that backend loadTask(id)
\* finds nothing afterwards, the id is in neither the index's task list nor
\* the live id list, and the Storage Port deleteTask(id) returned true.
C11_PermanentDelete ==
  last.op \in DeleteOps =>
    \A b \in Backends : \A A \in last.found[b] :
      /\ loadTask(b, store[b], A.id) = {}
      /\ A.id \notin Range(loadIndex(b, store[b]).tasks)
      /\ A.id \notin Range(getAllTaskIds(b, store[b]))
      /\ last.ok[b]

\* ------------------------------------------------- archive properties
\* the primary area: the tasks directory (file), the rows with archived = 0
InPrimary(b, st, id) ==
  IF b = "file" THEN id \in DOMAIN st.primary
  ELSE \E i \in DOMAIN st.rows : st.rows[i].id = id /\ ~st.rows[i].archived

\* C12: in every backend, after archiveTask(t) on a saved task t, loadTask(t.id)
\* still finds the task, returns what it returned before the archive, with
\* t's id, field map, blocks and blockedBy, and t is not in the primary area.
C12_ArchivedLoadable ==
  last.op = "archiveSaved" =>
    \A b \in Backends : \A t \in last.task :
      /\ loadTask(b, store[b], t.id) /= {}
      /\ loadTask(b, store[b], t.id) = last.found[b]
      /\ \A l \in loadTask(b, store[b], t.id) :
           /\ l.id = t.id /\ l.fields = t.fields
           /\ l.blocks = t.blocks /\ l.blockedBy = t.blockedBy
      /\ ~InPrimary(b, store[b], t.id)

\* an archived task that was in the primary area of every backend and has fields
C12_ArchivedFromPrimary ==
  /\ last.op = "archiveSaved"
  /\ \A t \in last.task : DOMAIN t.fields /= {} /\ t.status \in {"active", "backlog"}
  /\ \A b \in Backends : last.found[b] /= {}

\* --------------------------------------------------- query properties
\* the default status gate
Gated(t) == t.status \in {"active", "backlog"}

\* taskRouter.overdue
OverdueQuery == [DefaultQuery EXCEPT !.filters = <<Filter("deadline", "lt", <<"today">>)>>]

\* C13: in every backend, queryTasks with the single filter (deadline, lt,
\* "today") succeeds and returns exactly the gated tasks whose deadline is
\* before the current date (or today at a time already past).
C13_OverdueFilter ==
  (last.op = "queryTasks" /\ last.query = {OverdueQuery}) =>
    \A b \in Backends :
      /\ ~last.result[b].error
      /\ Ids(last.result[b].tasks) =
           {t.id : t \in {x \in last.task :
                            /\ Gated(x)
                            /\ "deadline" \in DOMAIN x.fields
                            /\ isOverdue(x.fields["deadline"].value)}}

\* x and y are the same text up to the case of their letters
EqualIgnoringCase(x, y) ==
  Len(x) = Len(y) /\ \A i \in DOMAIN x : Lower(x[i]) = Lower(y[i])

\* the stored text of a field: its normalized form, or its raw value when
\* there is none; a null raw value is no text
StoredText(field) ==
  IF field.normalized /= <<>> THEN {field.normalized}
  ELSE IF field.value = NullValue THEN {}
  ELSE {field.value}

EqQueries ==
  {q \in Queries : Len(q.filters) = 1 /\ q.filters[1].op = "eq"
                   /\ q.filters[1].field = "priority"}

\* C14: in every backend, a query with the one filter (f, eq, v) returns, of
\* the tasks the same query without the filter returns, exactly those that
\* have field f with a normalized value (or raw value when there is no
\* normalized form) equal to v ignoring letter case.
C14_CaseInsensitiveEq ==
  (last.op = "queryTasks" /\ last.query \subseteq EqQueries) =>
    \A b \in Backends : \A q \in last.query :
      /\ ~last.result[b].error
      /\ Ids(last.result[b].tasks) =
           {t.id : t \in {x \in last.task :
              /\ x.id \in Ids(queryTasks(b, store[b], [q EXCEPT !.filters = <<>>]).tasks)
              /\ q.filters[1].field \in DOMAIN x.fields
              /\ \E text \in StoredText(x.fields[q.filters[1].field]) :
                   EqualIgnoringCase(text, q.filters[1].value)}}

\* the statuses a query admits
StatusGate(q) ==
  IF q.hasStatus THEN q.status
  ELSE IF q.includeCompleted THEN TaskStatus
  ELSE {"active", "backlog"}

\* C15: for every query without filters and sort field, in every backend,
\* queryTasks succeeds and its total is the number of stored tasks that pass
\* the status gate, whatever limit and offset are.
C15_TotalBeforePagination ==
  last.op = "queryTasks" =>
    \A b \in Backends : \A q \in last.query :
      (q.filters = <<>> /\ q.sort = NoSort) =>
        /\ ~last.result[b].error
        /\ last.result[b].total =
             Cardinality({t \in last.task : t.status \in StatusGate(q)})

\* the same query without limit and offset
Unpaginated(q) == [q EXCEPT !.limit = Undefined, !.offset = Undefined]

\* C16: in every backend, for every combination of offset and limit being
\* given or not, queryTasks succeeds and returns the sequence the query
\* without limit and offset returns, with the first offset tasks dropped and
\* then at most limit tasks kept.
C16_Pagination ==
  last.op = "queryTasks" =>
    \A b \in Backends : \A q \in last.query :
      (q.filters = <<>> /\ q.sort = NoSort) =>
        /\ ~last.result[b].error
        /\ last.result[b].tasks =
             Paginate(queryTasks(b, store[b], Unpaginated(q)).tasks, q.offset, q.limit)

\* the tasks of group k of a grouped result
GroupOf(grouped, k) == IF k \in DOMAIN grouped THEN Range(grouped[k]) ELSE {}

\* C17: with groupBy = g, in every backend, the grouped result partitions the
\* returned (paginated) tasks: every returned task is in exactly one group and
\* every group member is a returned task; a task that has field g is in the
\* group keyed by the stringified value of g; the tasks in group "ungrouped"
\* are exactly the returned tasks that lack field g.
C17_Grouping ==
  last.op = "queryTasks" =>
    \A b \in Backends : \A q \in last.query :
      q.groupBy /= NoGroup =>
        LET r == last.result[b]
        IN /\ ~r.error
           /\ \A k \in DOMAIN r.grouped : Range(r.grouped[k]) \subseteq Range(r.tasks)
           /\ \A t \in Range(r.tasks) :
                /\ Cardinality({k \in DOMAIN r.grouped : t \in Range(r.grouped[k])}) = 1
                /\ q.groupBy \in DOMAIN t.fields =>
                     t \in GroupOf(r.grouped, JsString(t.fields[q.groupBy].value))
                /\ t \in GroupOf(r.grouped, <<"ungrouped">>) <=>
                     q.groupBy \notin DOMAIN t.fields

HasDeadline(t) == "deadline" \in DOMAIN t.fields /\ ~Falsy(t.fields["deadline"].value)

\* t may come directly before u in the default order: an earlier deadline
\* first, a task without deadline after every task with one, and of two tasks
\* with the same deadline (or both without) the later created first
DefaultOrdered(t, u) ==
  IF HasDeadline(t) /\ HasDeadline(u)
    THEN \/ StrLess(t.fields["deadline"].value, u.fields["deadline"].value)
         \/ /\ t.fields["deadline"].value = u.fields["deadline"].value
            /\ t.created >= u.created
  ELSE IF HasDeadline(t) THEN TRUE
  ELSE IF HasDeadline(u) THEN FALSE
  ELSE t.created >= u.created

\* C18: when the query names no sort field, in every backend, queryTasks
\* returns the tasks in ascending order of deadline, the tasks without a
\* deadline last, and tasks with equal deadlines in descending order of
\* creation time.
C18_DefaultOrder ==
  last.op = "queryTasks" =>
    \A b \in Backends : \A q \in last.query :
      q.sort = NoSort =>
        LET tasks == last.result[b].tasks
        IN \A i \in DOMAIN tasks : \A j \in DOMAIN tasks :
             i < j => DefaultOrdered(tasks[i], tasks[j])


\* ------------------------------------------------- export and import
\* a store holding the four fixture tasks whose schema is at some version
ImportInit ==
  \E statuses \in [1..4 -> TaskStatus], fields \in FieldPatterns, archive \in BOOLEAN,
     version \in 1..MaxVersion :
    LET tasks == [i \in 1..4 |-> FixtureTask(i, statuses[i], fields[i])]
    IN /\ store = [b \in Backends |->
                     saveSchema(b, FixtureStore(b, tasks, archive),
                                [DEFAULT_SCHEMA EXCEPT !.version = version], 4)]
       /\ last = [NoLast EXCEPT !.op = "fixture", !.task = Range(tasks)]
       /\ clock = 4
       /\ used = Range(FixtureIds)
       /\ steps = 0

\* IStorage.exportAll on every backend.  The dump is kept in last.result, the
\* tasks the exporting store could load in last.found, whether it held tasks
\* both in its primary area and in its archive in last.existed; from here on
\* store[b] is the empty store of the same backend type the dump goes to.
ExportAll ==
  /\ last.op = "fixture"
  /\ last' = [last EXCEPT
       !.op = "exportAll",
       !.result = [b \in Backends |-> exportAll(b, store[b], clock + 1)],
       !.found = [b \in Backends |-> {TaskOf(b, id) : id \in Stored(b)}],
       !.existed = [b \in Backends |->
                      /\ \E id \in Stored(b) : InPrimary(b, store[b], id)
                      /\ \E id \in Stored(b) : ~InPrimary(b, store[b], id)]]
  /\ store' = [b \in Backends |-> InitStore(b)]
  /\ clock' = clock + 1
  /\ UNCHANGED <<used, steps>>

\* importAll still has a write to make in some backend
Importing ==
  /\ last.op \in {"exportAll", "importAll"}
  /\ \E b \in Backends : steps < ImportLength(last.result[b])

\* the next awaited write of IStorage.importAll, in every backend that has one
ImportWrite ==
  /\ Importing
  /\ store' = [b \in Backends |-> importAll(b, store[b], last.result[b], steps, clock)]
  /\ last' = [last EXCEPT !.op = "importAll"]
  /\ steps' = steps + 1
  /\ UNCHANGED <<clock, used>>

\* the next write throws: importAll rejects and makes no further write
ImportFail ==
  /\ Importing
  /\ last' = [last EXCEPT !.op = "importFailed"]
  /\ UNCHANGED <<store, clock, used, steps>>

ImportNext == ExportAll \/ ImportWrite \/ ImportFail

SpecImport == ImportInit /\ [][ImportNext]_vars

\* C19: in every backend, when the exporting store held tasks of all four
\* statuses, some in its primary area and some archived, the store that
\* importAll filled from the dump loads the same set of task ids, the same field
\* map and status for each of them, and has the same schema version.
C19_ExportImportIdentity ==
  (/\ last.op = "importAll"
   /\ \A b \in Backends : steps >= ImportLength(last.result[b]) /\ last.existed[b]
   /\ \A s \in TaskStatus : \E t \in last.task : t.status = s)
  => \A b \in Backends :
       /\ Stored(b) = {t.id : t \in last.found[b]}
       /\ \A t \in last.found[b] : \A l \in loadTask(b, store[b], t.id) :
            l.fields = t.fields /\ l.status = t.status
       /\ loadSchema(b, store[b], clock).schema.version
            = last.result[b].schema.version

\* the schema row or file of backend b was written after the store was set up
SchemaWritten(b) == store[b].hasSchema /\ store[b].schema.lastUpdated > 0

\* the index of backend b is no longer the empty index of a new store
IndexReplaced(b) == loadIndex(b, store[b]).tasks /= <<>>

\* C20: in every state from the export on, also after importAll stopped on a
\* failure, a backend that holds a task has its schema written, and a backend
\* whose index was replaced holds every task of the dump.
C20_ImportOrdering ==
  last.op \in {"exportAll", "importAll", "importFailed"} =>
    \A b \in Backends :
      /\ Stored(b) /= {} => SchemaWritten(b)
      /\ IndexReplaced(b) =>
           \A i \in DOMAIN last.result[b].tasks : last.result[b].tasks[i].id \in Stored(b)

\* importAll stopped on a failure after the schema and some, not all, tasks
C20_StoppedMidway ==
  /\ last.op = "importFailed"
  /\ \A b \in Backends :
       /\ SchemaWritten(b)
       /\ Stored(b) /= {}
       /\ \E i \in DOMAIN last.result[b].tasks : last.result[b].tasks[i].id \notin Stored(b)
       /\ ~IndexReplaced(b)

\* ------------------------------------------------------- schema operations
MaxSchemaSteps == 3

\* name.toLowerCase().replace(/\s+/g, "_")
normalizeName(name) ==
  [i \in DOMAIN name |-> IF name[i] = " " THEN "_" ELSE Lower(name[i])]

\* an addFieldToSchema that forgets schema.version++
Cli_addFieldToSchema_NoBump(schema, fieldName) ==
  LET normalizedName == normalizeName(fieldName)
  IN IF normalizedName \in DOMAIN schema.fields
       THEN [schema |-> schema, added |-> FALSE]
     ELSE IF \E k \in DOMAIN schema.fields : normalizedName \in schema.fields[k].aliases
       THEN [schema |-> schema, added |-> FALSE]
     ELSE [schema |-> [schema EXCEPT
                         !.fields = (normalizedName :> FieldDefinition({}, "custom")) @@ @],
           added |-> TRUE]

\* addFieldToSchema of the CLI: [schema |-> the schema afterwards, added |-> result]
Cli_addFieldToSchema(schema, fieldName) ==
  LET normalizedName == normalizeName(fieldName)
  IN IF normalizedName \in DOMAIN schema.fields
       THEN [schema |-> schema, added |-> FALSE]
     ELSE IF \E k \in DOMAIN schema.fields : normalizedName \in schema.fields[k].aliases
       THEN [schema |-> schema, added |-> FALSE]
     ELSE [schema |-> [schema EXCEPT
                         !.fields = (normalizedName :> FieldDefinition({}, "custom")) @@ @,
                         !.version = @ + 1],
           added |-> TRUE]

\* addFieldToSchema of the extraction module (the one task.create imports)
Extraction_addFieldToSchema(schema, name, aliases) ==
  LET normalizedName == normalizeName(name)
  IN IF normalizedName \in DOMAIN schema.fields
       THEN [schema |-> schema, added |-> FALSE]
     ELSE [schema |-> [schema EXCEPT
                         !.fields = (normalizedName :> FieldDefinition(aliases, "custom")) @@ @,
                         !.version = @ + 1],
           added |-> TRUE]

RECURSIVE CliProposals(_, _)
\* the loop of addTasks over newFields: acc is [schema, added]
CliProposals(acc, newFields) ==
  IF newFields = <<>> THEN acc
  ELSE LET r == Cli_addFieldToSchema(acc.schema, Head(newFields))
       IN CliProposals([schema |-> r.schema, added |-> acc.added \/ r.added],
                       Tail(newFields))

RECURSIVE RouterProposals(_, _)
\* the loop of task.create over newFields (proposals carry no aliases)
RouterProposals(acc, newFields) ==
  IF newFields = <<>> THEN acc
  ELSE LET r == Extraction_addFieldToSchema(acc.schema, Head(newFields), {})
       IN RouterProposals([schema |-> r.schema, added |-> acc.added \/ r.added],
                          Tail(newFields))

\* what a schema handler leaves: the store and whether it accepted
SchemaOutcome(b, loaded, r, now) ==
  IF r.added THEN [st |-> saveSchema(b, loaded.st, r.schema, now), ok |-> TRUE]
  ELSE [st |-> loaded.st, ok |-> FALSE]

\* addSchemaField (CLI "schema add"), with a valid type
addSchemaField(b, st, name, now) ==
  LET loaded == loadSchema(b, st, now)
  IN SchemaOutcome(b, loaded, Cli_addFieldToSchema(loaded.schema, name), now)

\* addTasks (CLI): the part that handles the extraction's newFields
CliNewFields(b, st, newFields, now) ==
  LET loaded == loadSchema(b, st, now)
  IN SchemaOutcome(b, loaded,
                   CliProposals([schema |-> loaded.schema, added |-> FALSE], newFields), now)

\* taskRouter.create: the part that handles the extraction's newFields
RouterNewFields(b, st, newFields, now) ==
  LET loaded == loadSchema(b, st, now)
  IN SchemaOutcome(b, loaded,
                   RouterProposals([schema |-> loaded.schema, added |-> FALSE], newFields), now)

\* schemaRouter.addField: CONFLICT (ok = FALSE) when the name is a field name
schemaRouter_addField(b, st, name, aliases, now) ==
  LET loaded == loadSchema(b, st, now)
  IN SchemaOutcome(b, loaded, Extraction_addFieldToSchema(loaded.schema, name, aliases), now)

\* schemaRouter.updateField: NOT_FOUND (ok = FALSE) when input.name is no field;
\* definition.aliases is {} when the partial definition has no aliases
schemaRouter_updateField(b, st, name, aliases, now) ==
  LET loaded == loadSchema(b, st, now)
      schema == loaded.schema
  IN IF name \notin DOMAIN schema.fields THEN [st |-> loaded.st, ok |-> FALSE]
     ELSE LET def == IF aliases = {} THEN schema.fields[name]
                     ELSE [schema.fields[name] EXCEPT
                             !.aliases = CHOOSE a \in aliases : TRUE]
          IN [st |-> saveSchema(b, loaded.st,
                                [schema EXCEPT !.fields[name] = def, !.version = @ + 1], now),
              ok |-> TRUE]

\* the names a caller or the extraction proposes
NameInputs ==
  {<<"subject">>, <<"Project">>, <<"focus">>, <<"mood">>, <<"Mood">>,
   <<"due", " ", "date">>, <<"due", "_", "date">>, <<"feeling">>}

\* the newFields of one extraction
ProposalInputs ==
  LET N == {<<"Project">>, <<"mood">>, <<"Mood">>}
  IN {<<n>> : n \in N} \cup {<<n, m>> : n \in N, m \in N}

AliasInputs == {{}, {<<"feeling">>}}

\* the schema a caller of loadSchema gets from backend b
SchemaOf(b) == loadSchema(b, store[b], clock).schema

SchemaApplied(op, names, out) ==
  /\ steps < MaxSchemaSteps
  /\ store' = [b \in Backends |-> out[b].st]
  /\ last' = [NoLast EXCEPT !.op = op, !.id = names,
                            !.ok = [b \in Backends |-> out[b].ok],
                            !.found = [b \in Backends |-> {SchemaOf(b)}]]
  /\ clock' = clock + 1
  /\ steps' = steps + 1
  /\ UNCHANGED used

CmdSchemaAdd ==
  \E name \in NameInputs :
    SchemaApplied("addSchemaField", <<name>>,
                  [b \in Backends |-> addSchemaField(b, store[b], name, clock + 1)])

CmdNewFields ==
  \E newFields \in ProposalInputs :
    SchemaApplied("addTasks", newFields,
                  [b \in Backends |-> CliNewFields(b, store[b], newFields, clock + 1)])

TaskCreateNewFields ==
  \E newFields \in ProposalInputs :
    SchemaApplied("task.create", newFields,
                  [b \in Backends |-> RouterNewFields(b, store[b], newFields, clock + 1)])

SchemaAddField ==
  \E name \in NameInputs, aliases \in AliasInputs :
    SchemaApplied("schema.addField", <<name>>,
                  [b \in Backends |->
                     schemaRouter_addField(b, store[b], name, aliases, clock + 1)])

SchemaUpdateField ==
  \E name \in NameInputs, aliases \in {{}, {{}}, {{<<"feeling">>}}} :
    SchemaApplied("schema.updateField", <<name>>,
                  [b \in Backends |->
                     schemaRouter_updateField(b, store[b], name, aliases, clock + 1)])

SchemaNext ==
  CmdSchemaAdd \/ CmdNewFields \/ TaskCreateNewFields \/ SchemaAddField \/ SchemaUpdateField

SpecSchema == PortInit /\ [][SchemaNext]_vars

AddOps == {"addSchemaField", "addTasks", "task.create", "schema.addField"}

\* the normalized name is a field name of the schema or one of its aliases
Collides(schema, name) ==
  \/ normalizeName(name) \in DOMAIN schema.fields
  \/ \E k \in DOMAIN schema.fields : normalizeName(name) \in schema.fields[k].aliases

\* C21: on every path that adds schema fields, when every proposed name
\* collides (after normalization) with a field name or an alias of the schema,
\* the proposal is rejected and the schema's fields and version are unchanged.
C21_CollisionRejected ==
  last.op \in AddOps =>
    \A b \in Backends : \A pre \in last.found[b] :
      (\A i \in DOMAIN last.id : Collides(pre, last.id[i]))
        => /\ ~last.ok[b]
           /\ SchemaOf(b).fields = pre.fields
           /\ SchemaOf(b).version = pre.version

\* C22: an addition keeps every existing field as it was, adds only normalized
\* proposed names, and raises the version by the number of fields added; a
\* single accepted name adds exactly that field and one version; a name that
\* is already a field is rejected and changes nothing; updateField removes no
\* field name and never lowers the version.
C22_VersionBump ==
  \A b \in Backends : \A pre \in last.found[b] :
    LET post == SchemaOf(b)
        new == DOMAIN post.fields \ DOMAIN pre.fields
    IN /\ last.op \in AddOps =>
            /\ \A k \in DOMAIN pre.fields :
                 k \in DOMAIN post.fields /\ post.fields[k] = pre.fields[k]
            /\ new \subseteq {normalizeName(last.id[i]) : i \in DOMAIN last.id}
            /\ post.version = pre.version + Cardinality(new)
            /\ (Len(last.id) = 1 /\ last.ok[b]) =>
                 new = {normalizeName(last.id[1])} /\ post.version = pre.version + 1
            /\ (\A i \in DOMAIN last.id : normalizeName(last.id[i]) \in DOMAIN pre.fields)
                 => ~last.ok[b] /\ post.fields = pre.fields /\ post.version = pre.version
       /\ last.op = "schema.updateField" =>
            /\ DOMAIN pre.fields \subseteq DOMAIN post.fields
            /\ post.version >= pre.version
            /\ last.ok[b] => post.version = pre.version + 1

\* a custom field was added twice: the second addition was rejected
C22_AddedTwice ==
  /\ last.op \in AddOps /\ Len(last.id) = 1
  /\ \A b \in Backends :
       /\ ~last.ok[b]
       /\ \A pre \in last.found[b] :
            /\ normalizeName(last.id[1]) \in DOMAIN pre.fields
            /\ pre.fields[normalizeName(last.id[1])].category = "custom"
            /\ pre.version > 1

\* ------------------------------------- saveTask, one SQL statement at a time
MaxSaves == 1

RECURSIVE FieldRowSeq(_)
\* the side rows in the order Object.entries(task.fields) yields them
FieldRowSeq(S) ==
  IF S = {} THEN <<>>
  ELSE LET f == CHOOSE x \in S : TRUE IN <<f>> \o FieldRowSeq(S \ {f})

\* side-row statements without the DELETE: the inserts add to what is there
SideRowStatement_NoDelete(st, t, k) ==
  LET inserts == FieldRowSeq(FieldRows(t))
  IN IF k >= 3 /\ k <= 2 + Len(inserts)
       THEN [st EXCEPT !.task_fields = @ \cup {inserts[k - 2]}]
     ELSE st

\* the statements saveTask runs after the first: 2 is DELETE FROM task_fields,
\* 3 and up are the INSERT INTO task_fields of each field in turn
SideRowStatement(st, t, k) ==
  LET inserts == FieldRowSeq(FieldRows(t))
  IN IF k = 2 THEN [st EXCEPT !.task_fields = {f \in @ : f.task_id /= t.id}]
     ELSE IF k >= 3 /\ k <= 2 + Len(inserts)
       THEN [st EXCEPT !.task_fields = @ \cup {inserts[k - 2]}]
     ELSE st

\* the number of statements of saveTask's three-part write
WriteLength(t) == 2 + Cardinality(FieldRows(t))

\* SQLiteStorage.saveTask, statement k: each run() takes effect at once
SQLiteStorage_saveTask_statement(st, t, k) ==
  LET Others(r) == r.id /= t.id
  IN IF k = 1
       THEN [st EXCEPT !.rows = Append(SelectSeq(st.rows, Others), TaskRow(t, FALSE))]
     ELSE SideRowStatement(st, t, k)

\* PostgresStorage.saveTask, statement k, as the open transaction sees the rows
PostgresStorage_saveTask_statement(st, t, k) ==
  LET new == TaskRow(t, FALSE)
  IN IF k = 1
       THEN [st EXCEPT !.rows =
               IF t.id \in RowIds(st.rows)
                 THEN [i \in DOMAIN st.rows |->
                         IF st.rows[i].id = t.id
                           THEN [new EXCEPT !.created = st.rows[i].created]
                           ELSE st.rows[i]]
                 ELSE Append(st.rows, new)]
     ELSE SideRowStatement(st, t, k)

\* a saveTask whose statements are not inside BEGIN .. COMMIT: every statement
\* is committed as it runs
PostgresWrite_Autocommit(stores, t, k) ==
  IF k = 0 THEN [stores EXCEPT !.tx = stores.postgres]
  ELSE IF k <= WriteLength(t)
    THEN [stores EXCEPT !.tx = PostgresStorage_saveTask_statement(@, t, k),
                        !.postgres = PostgresStorage_saveTask_statement(@, t, k)]
  ELSE [stores EXCEPT !.postgres = stores.tx]

\* PostgresStorage.saveTask on its pooled client: 0 is BEGIN, the statements
\* change what the transaction sees (stores.tx), the last one is COMMIT, which
\* makes it what every other connection sees (stores.postgres)
PostgresWrite(stores, t, k) ==
  IF k = 0 THEN [stores EXCEPT !.tx = stores.postgres]
  ELSE IF k <= WriteLength(t)
    THEN [stores EXCEPT !.tx = PostgresStorage_saveTask_statement(@, t, k)]
  ELSE [stores EXCEPT !.postgres = stores.tx]

\* a catch block that commits what the transaction did so far
PostgresRollback_Commit(stores) == [stores EXCEPT !.postgres = stores.tx]

\* the catch block of PostgresStorage.saveTask: ROLLBACK, then rethrow
PostgresRollback(stores) == [stores EXCEPT !.tx = stores.postgres]

\* this.pool.connect(): one more client is checked out
PoolConnect(stores) ==
  [stores EXCEPT !.pool.checkedOut = @ + 1, !.pool.acquired = @ + 1]

\* a client.release() placed after COMMIT inside the try block
PoolRelease_AfterCommit(stores, path) ==
  IF path = "commit"
    THEN [stores EXCEPT !.pool.checkedOut = @ - 1, !.pool.released = @ + 1]
    ELSE stores

\* the finally block of PostgresStorage.saveTask: client.release() on every
\* path ("commit", "rollback", "rollbackFailed")
PoolRelease(stores, path) ==
  [stores EXCEPT !.pool.checkedOut = @ - 1, !.pool.released = @ + 1]

\* SQLiteStorage.saveTask has no statement before the first write and none
\* after the last insert
SQLiteWrite(stores, t, k) ==
  IF k >= 1 /\ k <= WriteLength(t)
    THEN [stores EXCEPT !.sqlite = SQLiteStorage_saveTask_statement(@, t, k)]
    ELSE stores

\* FileStorage.saveTask is one writeFileSync
FileWrite(stores, t, k) ==
  IF k = 1 THEN [stores EXCEPT !.file = FileStorage_saveTask(@, t)] ELSE stores

\* what one SELECT of another connection finds for an id: the tasks row and
\* the task_fields rows
ReadRows(st, id) ==
  [row |-> SQL_loadTask(st, id), side |-> {f \in st.task_fields : f.task_id = id}]

\* the tasks a caller saves over the stored ones
TxTasks ==
  {[Task(id, status, {}, {}, FALSE, 9) EXCEPT !.fields = fields] :
     id \in {FixtureIds[1], FixtureIds[2]}, status \in {"backlog", "completed"},
     fields \in {<<>>, ("priority" :> Field(<<"U">>, <<>>)),
                 ("priority" :> Field(<<"h">>, <<"u">>)
                  @@ "deadline" :> Field(<<Today>>, <<>>)),
                 ("priority" :> Field(<<"h">>, <<"u">>)
                  @@ "tags" :> Field(ArrayValue, <<>>))}}

\* four stored backlog tasks; store.tx is what a transaction of the Postgres
\* client sees (no transaction is open: the committed rows)
TxInit ==
  \E fields \in FieldPatterns :
    LET tasks == [i \in 1..4 |-> FixtureTask(i, "backlog", fields[i])]
        stores == [b \in Backends |-> FixtureStore(b, tasks, FALSE)]
    IN /\ store = [b \in Backends \cup {"tx", "pool"} |->
                     IF b = "pool" THEN [checkedOut |-> 0, acquired |-> 0, released |-> 0]
                     ELSE IF b = "tx" THEN stores["postgres"] ELSE stores[b]]
       /\ last = [NoLast EXCEPT !.op = "fixture"]
       /\ clock = 0
       /\ used = Range(FixtureIds)
       /\ steps = 0

\* a caller starts saveTask(t): Postgres runs BEGIN.  last.result keeps the
\* stores as they are at the call, steps counts the statements run so far,
\* clock the calls made.
SaveBegin ==
  \E t \in TxTasks :
    /\ last.op \in {"fixture", "saved", "saveFailed"}
    /\ clock < MaxSaves
    /\ store' = PostgresWrite(PoolConnect(store), t, 0)
    /\ last' = [NoLast EXCEPT !.op = "saveTask", !.id = t.id, !.task = {t},
                              !.result = store]
    /\ steps' = 1
    /\ clock' = clock + 1
    /\ UNCHANGED used

\* the statement after COMMIT's turn: every backend has returned
SaveLength(t) == WriteLength(t) + 1

\* the next statement of saveTask runs in every backend that still has one;
\* after its last statement a backend's call has resolved (last.ok)
SaveStatement ==
  \E t \in last.task :
    /\ last.op = "saveTask"
    /\ steps <= SaveLength(t)
    /\ store' =
         LET written == PostgresWrite(SQLiteWrite(FileWrite(store, t, steps), t, steps),
                                      t, steps)
         IN IF steps = SaveLength(t) THEN PoolRelease(written, "commit") ELSE written
    /\ last' = [last EXCEPT
         !.op = IF steps = SaveLength(t) THEN "saved" ELSE "saveTask",
         !.ok = [b \in Backends |->
                   CASE b = "file" -> steps >= 1
                     [] b = "sqlite" -> steps >= WriteLength(t)
                     [] b = "postgres" -> steps >= SaveLength(t)]]
    /\ steps' = steps + 1
    /\ UNCHANGED <<clock, used>>

\* the next statement throws in every backend that still has one: the call
\* rejects there (last.existed), and Postgres runs its catch block, in which
\* ROLLBACK may fail as well (the transaction is then left as it is), and its
\* finally block
SaveFail ==
  \E t \in last.task, rollbackFails \in BOOLEAN :
    /\ last.op = "saveTask"
    /\ steps <= SaveLength(t)
    /\ store' = IF rollbackFails THEN PoolRelease(store, "rollbackFailed")
                ELSE PoolRelease(PostgresRollback(store), "rollback")
    /\ last' = [last EXCEPT !.op = "saveFailed",
                            !.existed = [b \in Backends |-> ~last.ok[b]],
                            !.calls = IF rollbackFails THEN <<"rollbackFailed">>
                                      ELSE <<"rollback">>]
    /\ UNCHANGED <<clock, used, steps>>

\* another connection reads the saved task's rows with one SELECT
ReadDuringSave ==
  /\ last.op \in {"saveTask", "saved", "saveFailed"}
  /\ last' = [last EXCEPT
       !.found = [b \in Backends |->
                    IF b = "file" THEN {} ELSE {ReadRows(store[b], last.id)}]]
  /\ UNCHANGED <<store, clock, used, steps>>

TxNext == SaveBegin \/ SaveStatement \/ SaveFail \/ ReadDuringSave

SpecTx == TxInit /\ [][TxNext]_vars

\* the rows of the saved id before the call and after a complete saveTask
RowsBefore(b) == ReadRows(last.result[b], last.id)

RowsAfter(b) ==
  LET t == CHOOSE t \in last.task : TRUE
  IN ReadRows(saveTask(b, last.result[b], t), last.id)

\* C23: what another connection reads for t.id from the Client-Server adapter
\* while, after or instead of a completed saveTask(t) is the tasks row and the
\* side rows from before the call or the row and the rows of the completed
\* save, never a mixture.
C23_AtomicVisibility ==
  last.op \in {"saveTask", "saved", "saveFailed"} =>
    \A seen \in last.found["postgres"] :
      seen = RowsBefore("postgres") \/ seen = RowsAfter("postgres")

\* a read between the upsert and the last side-row insert of a save that
\* changes both the row and the side rows
C23_ReadMidway ==
  /\ last.op = "saveTask"
  /\ \E t \in last.task : steps >= 2 /\ steps <= WriteLength(t)
  /\ last.found["postgres"] /= {}
  /\ RowsBefore("postgres").row /= RowsAfter("postgres").row
  /\ RowsBefore("postgres").side /= RowsAfter("postgres").side

\* C24: when a statement of saveTask(t) fails in the Client-Server adapter, the
\* call rejects and the stored row and side rows of t.id are those from before
\* the call.
C24_PostgresRollback ==
  (last.op = "saveFailed" /\ last.existed["postgres"]) =>
    /\ ReadRows(store["postgres"], last.id) = RowsBefore("postgres")
    /\ store["postgres"] = last.result["postgres"]
    /\ ~last.ok["postgres"]

\* saveTask failed after the upsert and the delete, with side rows to lose
C24_FailedMidway ==
  /\ last.op = "saveFailed" /\ last.existed["postgres"]
  /\ steps >= 3
  /\ RowsBefore("postgres").side /= {}
  /\ RowsBefore("postgres").row /= RowsAfter("postgres").row

\* C25: when saveTask(t) fails part-way in the Embedded-SQL adapter, the stored
\* row and side rows of t.id are those from before the call.
C25_SqliteRollback ==
  (last.op = "saveFailed" /\ last.existed["sqlite"]) =>
    ReadRows(store["sqlite"], last.id) = RowsBefore("sqlite")

\* ------------------------------------------------- index properties
\* the tasks of backend b that exist with status s
WithStatus(b, s) == {id \in Stored(b) : TaskOf(b, id).status = s}

\* C26: after every create, createWithFields, activate, toBacklog, complete,
\* cancel and delete, in every backend and for every status s, the counter
\* index.stats.byStatus[s] is the number of existing tasks with status s.
C26_StatusCounters ==
  last.op \in LifecycleOps \cup DeleteOps =>
    \A b \in Backends : \A s \in TaskStatus :
      loadIndex(b, store[b]).byStatus[s] = Cardinality(WithStatus(b, s))

\* the ids of the index's tasks list in backend b
LiveList(b) == Range(loadIndex(b, store[b]).tasks)

\* C27: in every backend every id of the index's tasks list resolves through
\* loadTask, and every operation changes the set of listed ids by exactly the
\* ids of the tasks it created there and the id of the task it deleted there,
\* so the list holds every task created and not deleted.
C27_LiveIdSet ==
  /\ [](\A b \in Backends : \A id \in LiveList(b) : loadTask(b, store[b], id) /= {})
  /\ [][\A b \in Backends :
          LET created == {id \in used' \ used : loadTask(b, store'[b], id) /= {}}
              deleted == IF last'.op \in DeleteOps
                           THEN {t.id : t \in last'.found[b]} ELSE {}
          IN Range(loadIndex(b, store'[b]).tasks) = (LiveList(b) \cup created) \ deleted
       ]_vars

\* a delete that found its task in every backend and left another task listed
C27_DeletedOneOfTwo ==
  /\ last.op \in DeleteOps
  /\ \A b \in Backends : last.found[b] /= {} /\ LiveList(b) /= {}

\* ------------------------------------- concurrent callers of the index
Callers == {"c1", "c2"}

\* what each caller asks for
CallInputs ==
  [c1 |-> {[op |-> "add", id |-> <<"a", "a">>], [op |-> "remove", id |-> <<"b", "b">>]},
   c2 |-> {[op |-> "add", id |-> <<"a", "b">>], [op |-> "remove", id |-> <<"b", "a">>]}]

\* a write-back that reads the index again and applies the change to that
addTaskToIndex_Reread(b, st, index, taskId) ==
  LET current == loadIndex(b, st)
  IN IF taskId \notin Range(index.tasks)
       THEN saveIndex(b, st, [current EXCEPT !.tasks = Append(@, taskId)])
       ELSE st

\* BaseStorage.addTaskToIndex after its await of loadIndex: index is what the
\* load returned
addTaskToIndex(b, st, index, taskId) ==
  IF taskId \notin Range(index.tasks)
    THEN saveIndex(b, st, [index EXCEPT !.tasks = Append(@, taskId)])
    ELSE st

\* BaseStorage.removeTaskFromIndex after its await of loadIndex
removeTaskFromIndex_save(b, st, index, taskId) ==
  saveIndex(b, st, [index EXCEPT !.tasks = FilterSeq(@, taskId)])

\* a store whose index lists some tasks; no call has started
IndexInit ==
  \E tasks \in {<<>>, <<<<"b", "b">>>>, <<<<"b", "a">>, <<"b", "b">>>>} :
    /\ store = [b \in Backends |->
                  saveIndex(b, InitStore(b), [DEFAULT_INDEX EXCEPT !.tasks = tasks])]
    /\ last = [NoLast EXCEPT
         !.op = "index",
         !.calls = [c \in Callers |->
                      [pc |-> "idle", op |-> "none", id |-> <<>>, loaded |-> 0,
                       saved |-> 0, index |-> [b \in Backends |-> DEFAULT_INDEX]]]]
    /\ clock = 0
    /\ used = {}
    /\ steps = 0

\* a caller starts addTaskToIndex or removeTaskFromIndex: up to the point
\* where its loadIndex has returned
CallLoad ==
  \E c \in Callers : \E input \in CallInputs[c] :
    /\ last.op = "index"
    /\ last.calls[c].pc = "idle"
    /\ clock' = clock + 1
    /\ last' = [last EXCEPT !.calls[c] =
         [pc |-> "loaded", op |-> input.op, id |-> input.id, loaded |-> clock + 1,
          saved |-> 0, index |-> [b \in Backends |-> loadIndex(b, store[b])]]]
    /\ UNCHANGED <<store, used, steps>>

\* the caller's continuation: change the index it loaded, write it, return
CallSave ==
  \E c \in Callers :
    LET call == last.calls[c]
    IN /\ last.op = "index"
       /\ call.pc = "loaded"
       /\ store' = [b \in Backends |->
            IF call.op = "add"
              THEN addTaskToIndex(b, store[b], call.index[b], call.id)
              ELSE removeTaskFromIndex_save(b, store[b], call.index[b], call.id)]
       /\ clock' = clock + 1
       /\ last' = [last EXCEPT !.calls[c].pc = "returned", !.calls[c].saved = clock + 1]
       /\ UNCHANGED <<used, steps>>

IndexNext == CallLoad \/ CallSave

SpecIndex == IndexInit /\ [][IndexNext]_vars

\* both callers have returned from an addTaskToIndex
BothAdded ==
  /\ last.op = "index"
  /\ \A c \in Callers : last.calls[c].pc = "returned" /\ last.calls[c].op = "add"

\* C28: when two callers of addTaskToIndex have both returned, the stored index
\* of the Flat-File adapter has the id of the caller that wrote last, and it
\* has the id of the caller that wrote first exactly when the other caller
\* read the index after that write; so with both reads before the first write
\* only one of the two changes is stored.
C28_LostUpdate ==
  BothAdded =>
    \A first \in Callers : \A second \in Callers \ {first} :
      last.calls[first].saved < last.calls[second].saved =>
        /\ last.calls[second].id \in LiveList("file")
        /\ last.calls[first].id \in LiveList("file")
             <=> last.calls[second].loaded > last.calls[first].saved

\* both callers returned and the Flat-File index has only one of the two ids
C28_OnlyOneStored ==
  /\ BothAdded
  /\ \E c \in Callers : last.calls[c].id \notin LiveList("file")
  /\ \E c \in Callers : last.calls[c].id \in LiveList("file")

\* ------------------------------------------------------------- scopes
MaxScopeSteps == 4

Scope(parent) == [subjects |-> <<>>, parent |-> parent]

\* scopeRouter.create: CONFLICT for an existing id, NOT_FOUND for a missing
\* parent (ok = FALSE)
scopeRouter_create(b, st, name, parent) ==
  LET index == loadIndex(b, st)
      id == normalizeSubject(name)
  IN IF id \in DOMAIN index.scopes THEN [st |-> st, ok |-> FALSE]
     ELSE IF parent /= {} /\ ~(parent \subseteq DOMAIN index.scopes)
       THEN [st |-> st, ok |-> FALSE]
     ELSE [st |-> saveIndex(b, st, [index EXCEPT !.scopes = (id :> Scope(parent)) @@ @]),
           ok |-> TRUE]

\* createScope (CLI): the parent is not looked up
createScope(b, st, name, parent) ==
  LET index == loadIndex(b, st)
      id == normalizeSubject(name)
  IN IF id \in DOMAIN index.scopes THEN [st |-> st, ok |-> FALSE]
     ELSE [st |-> saveIndex(b, st, [index EXCEPT !.scopes = (id :> Scope(parent)) @@ @]),
           ok |-> TRUE]

\* "Remove from old scope": the subject leaves the subjects of the scope
\* subjectScopes names for it, when that scope exists
LeaveOldScope(index, normalizedSubject) ==
  IF normalizedSubject \in DOMAIN index.subjectScopes
       /\ index.subjectScopes[normalizedSubject] \in DOMAIN index.scopes
    THEN [index EXCEPT !.scopes[index.subjectScopes[normalizedSubject]].subjects =
                         FilterSeq(@, normalizedSubject)]
    ELSE index

\* scopeRouter.assignSubject
scopeRouter_assignSubject(b, st, subject, scopeId) ==
  LET index == loadIndex(b, st)
      normalizedSubject == normalizeSubject(subject)
      left == LeaveOldScope(index, normalizedSubject)
      mapped == [left EXCEPT !.subjectScopes = (normalizedSubject :> scopeId) @@ @]
      added == IF normalizedSubject \notin Range(mapped.scopes[scopeId].subjects)
                 THEN [mapped EXCEPT !.scopes[scopeId].subjects =
                                       Append(@, normalizedSubject)]
                 ELSE mapped
  IN IF scopeId \notin DOMAIN index.scopes THEN [st |-> st, ok |-> FALSE]
     ELSE [st |-> saveIndex(b, st, added), ok |-> TRUE]

\* assignSubjectToScope (CLI)
assignSubjectToScope(b, st, subject, scopeId) ==
  LET index == loadIndex(b, st)
      normalizedSubject == normalizeSubject(subject)
      left == LeaveOldScope(index, normalizedSubject)
      mapped == [left EXCEPT !.subjectScopes = (normalizedSubject :> scopeId) @@ @]
      added == IF normalizedSubject \notin Range(mapped.scopes[scopeId].subjects)
                 THEN [mapped EXCEPT !.scopes[scopeId].subjects =
                                       Append(@, normalizedSubject)]
                 ELSE mapped
  IN IF scopeId \notin DOMAIN index.scopes THEN [st |-> st, ok |-> FALSE]
     ELSE [st |-> saveIndex(b, st, added), ok |-> TRUE]

\* scopeRouter.unassignSubject
scopeRouter_unassignSubject(b, st, subject) ==
  LET index == loadIndex(b, st)
      normalizedSubject == normalizeSubject(subject)
      left == LeaveOldScope(index, normalizedSubject)
  IN [st |-> saveIndex(b, st, [left EXCEPT
                                 !.subjectScopes = Remove(@, normalizedSubject)]),
      ok |-> TRUE]

\* a scope.delete that deletes the child scopes as well
scopeRouter_delete_Children(b, st, id) ==
  LET index == loadIndex(b, st)
      kept == {k \in DOMAIN index.scopes : k /= id /\ index.scopes[k].parent /= {id}}
  IN IF id \notin DOMAIN index.scopes THEN [st |-> st, ok |-> FALSE]
     ELSE [st |-> saveIndex(b, st,
                    [index EXCEPT
                       !.subjectScopes =
                          [x \in {y \in DOMAIN @ : @[y] /= id} |-> @[x]],
                       !.scopes = [k \in kept |-> @[k]]]),
           ok |-> TRUE]

\* scopeRouter.delete: NOT_FOUND (ok = FALSE) for a missing id
scopeRouter_delete(b, st, id) ==
  LET index == loadIndex(b, st)
  IN IF id \notin DOMAIN index.scopes THEN [st |-> st, ok |-> FALSE]
     ELSE [st |-> saveIndex(b, st,
                    [index EXCEPT
                       !.subjectScopes =
                          [x \in {y \in DOMAIN @ : @[y] /= id} |-> @[x]],
                       !.scopes =
                          [k \in DOMAIN @ \ {id} |->
                             IF @[k].parent = {id} THEN [@[k] EXCEPT !.parent = {}]
                             ELSE @[k]]]),
           ok |-> TRUE]

\* scopeRouter.update: NOT_FOUND (ok = FALSE) for a missing id; parent.given
\* says whether input.parent is defined, parent.value is the scope id it
\* holds (none for null or ""); neither is compared with the index
scopeRouter_update(b, st, id, parent) ==
  LET index == loadIndex(b, st)
  IN IF id \notin DOMAIN index.scopes THEN [st |-> st, ok |-> FALSE]
     ELSE [st |-> saveIndex(b, st,
                    IF parent.given
                      THEN [index EXCEPT !.scopes[id].parent = parent.value]
                      ELSE index),
           ok |-> TRUE]

\* tx --use-scope: the scope has to exist; setCurrentScope(config, scopeId)
useScope(b, st, scopeId) ==
  IF scopeId \notin DOMAIN loadIndex(b, st).scopes THEN [st |-> st, ok |-> FALSE]
  ELSE [st |-> [st EXCEPT !.currentScope = {scopeId}], ok |-> TRUE]

\* tx --unset-scope: setCurrentScope(config, null)
unsetScope(b, st) == [st |-> [st EXCEPT !.currentScope = {}], ok |-> TRUE]

ScopeNames == {<<"work">>, <<"Home">>}

ScopeIds == {<<"work">>, <<"home">>}

SubjectInputs == {<<"Tx">>, <<"blog">>}

\* what every scope operation records: its name, the scope id it was given,
\* and for scope.delete the index and the stored tasks it started from
ScopeApplied(op, id, out) ==
  /\ steps < MaxScopeSteps
  /\ store' = [b \in Backends |-> out[b].st]
  /\ last' = [NoLast EXCEPT
       !.op = op, !.id = id,
       !.ok = [b \in Backends |-> out[b].ok],
       !.result = [b \in Backends |->
                     IF op = "scope.delete" THEN loadIndex(b, store[b]) ELSE <<>>],
       !.found = [b \in Backends |->
                    IF op = "scope.delete"
                      THEN {TaskOf(b, i) : i \in Stored(b)} ELSE {}]]
  /\ steps' = steps + 1

ScopeCreate ==
  \E name \in ScopeNames, parent \in {{}} \cup {{i} : i \in ScopeIds} :
    /\ ScopeApplied("scope.create", <<>>,
                    [b \in Backends |-> scopeRouter_create(b, store[b], name, parent)])
    /\ UNCHANGED <<clock, used>>

CmdScopeAdd ==
  \E name \in ScopeNames, parent \in {{}} \cup {{i} : i \in ScopeIds} :
    /\ ScopeApplied("createScope", <<>>,
                    [b \in Backends |-> createScope(b, store[b], name, parent)])
    /\ UNCHANGED <<clock, used>>

ScopeAssignSubject ==
  \E subject \in SubjectInputs, scopeId \in ScopeIds :
    /\ ScopeApplied("scope.assignSubject", <<>>,
                    [b \in Backends |->
                       scopeRouter_assignSubject(b, store[b], subject, scopeId)])
    /\ UNCHANGED <<clock, used>>

CmdScopeAssign ==
  \E subject \in SubjectInputs, scopeId \in ScopeIds :
    /\ ScopeApplied("assignSubjectToScope", <<>>,
                    [b \in Backends |->
                       assignSubjectToScope(b, store[b], subject, scopeId)])
    /\ UNCHANGED <<clock, used>>

ScopeUnassignSubject ==
  \E subject \in SubjectInputs :
    /\ ScopeApplied("scope.unassignSubject", <<>>,
                    [b \in Backends |-> scopeRouter_unassignSubject(b, store[b], subject)])
    /\ UNCHANGED <<clock, used>>

ParentInputs ==
  {[given |-> FALSE, value |-> {}]}
    \cup {[given |-> TRUE, value |-> v] : v \in {{}} \cup {{i} : i \in ScopeIds}}

ScopeUpdate ==
  \E id \in ScopeIds, parent \in ParentInputs :
    /\ ScopeApplied("scope.update", <<>>,
                    [b \in Backends |-> scopeRouter_update(b, store[b], id, parent)])
    /\ UNCHANGED <<clock, used>>

ScopeDelete ==
  \E id \in ScopeIds :
    /\ ScopeApplied("scope.delete", id,
                    [b \in Backends |-> scopeRouter_delete(b, store[b], id)])
    /\ UNCHANGED <<clock, used>>

CmdUseScope ==
  \E scopeId \in ScopeIds :
    /\ ScopeApplied("use-scope", <<>>, [b \in Backends |-> useScope(b, store[b], scopeId)])
    /\ UNCHANGED <<clock, used>>

CmdUnsetScope ==
  /\ \E b \in Backends : store[b].currentScope /= {}
  /\ ScopeApplied("unset-scope", <<>>, [b \in Backends |-> unsetScope(b, store[b])])
  /\ UNCHANGED <<clock, used>>

\* addTasks (CLI) of one task whose extraction has a subject field
CmdAddSubject ==
  \E subject \in SubjectInputs : \E ids \in FreshIds(1) :
    /\ Cardinality(used) < MaxTasks
    /\ ScopeApplied("addTasks", <<>>,
         [b \in Backends |->
            [st |-> CliAddTasks(b, store[b],
                                <<[Extracted(0, Undefined, FALSE) EXCEPT
                                     !.subject = {subject}]>>,
                                ids, <<>>, clock).st,
             ok |-> TRUE]])
    /\ used' = used \cup Range(ids)
    /\ clock' = clock + 1

ScopeNext ==
  \/ ScopeCreate \/ CmdScopeAdd \/ ScopeAssignSubject \/ CmdScopeAssign
  \/ ScopeUnassignSubject \/ ScopeDelete \/ CmdUseScope \/ CmdUnsetScope
  \/ ScopeUpdate
  \/ CmdAddSubject

SpecScope == Init /\ [][ScopeNext]_vars

\* C29: in every backend each normalized subject is in the subjects of at most
\* one scope, and subjectScopes[subject] = s exactly when scope s exists and
\* its subjects contain the subject.
C29_OneScopePerSubject ==
  \A b \in Backends :
    LET index == loadIndex(b, store[b])
        Subjects == DOMAIN index.subjectScopes
                      \cup UNION {Range(index.scopes[k].subjects) : k \in DOMAIN index.scopes}
    IN \A subject \in Subjects :
         /\ Cardinality({k \in DOMAIN index.scopes :
                           subject \in Range(index.scopes[k].subjects)}) <= 1
         /\ \A s \in ScopeIds :
              (subject \in DOMAIN index.subjectScopes /\ index.subjectScopes[subject] = s)
                <=> (s \in DOMAIN index.scopes
                       /\ subject \in Range(index.scopes[s].subjects))

\* C30: scope.delete(id) of an existing scope removes that scope, clears the
\* parent of exactly the scopes whose parent was id and keeps them, removes
\* exactly the subjectScopes entries that pointed to id, and leaves every other
\* scope and assignment, the tasks list, the counters and the stored tasks as
\* they were; for a missing id it is rejected and the index is unchanged.
C30_ScopeDelete ==
  last.op = "scope.delete" =>
    \A b \in Backends :
      LET pre == last.result[b]
          post == loadIndex(b, store[b])
      IN /\ {TaskOf(b, i) : i \in Stored(b)} = last.found[b]
         /\ post.tasks = pre.tasks /\ post.byStatus = pre.byStatus
         /\ IF last.id \in DOMAIN pre.scopes
              THEN /\ last.ok[b]
                   /\ DOMAIN post.scopes = DOMAIN pre.scopes \ {last.id}
                   /\ \A k \in DOMAIN post.scopes :
                        post.scopes[k] =
                          IF pre.scopes[k].parent = {last.id}
                            THEN [pre.scopes[k] EXCEPT !.parent = {}]
                            ELSE pre.scopes[k]
                   /\ DOMAIN post.subjectScopes =
                        {x \in DOMAIN pre.subjectScopes : pre.subjectScopes[x] /= last.id}
                   /\ \A x \in DOMAIN post.subjectScopes :
                        post.subjectScopes[x] = pre.subjectScopes[x]
              ELSE ~last.ok[b] /\ post = pre

\* a scope was deleted that had a child scope and an assigned subject
C30_DeletedParent ==
  /\ last.op = "scope.delete"
  /\ \A b \in Backends :
       LET pre == last.result[b]
       IN /\ last.id \in DOMAIN pre.scopes
          /\ \E k \in DOMAIN pre.scopes : pre.scopes[k].parent = {last.id}
          /\ \E x \in DOMAIN pre.subjectScopes : pre.subjectScopes[x] = last.id

\* following the parent pointers from scope k for at most n steps ends at a
\* scope without parent, every scope on the way existing
RECURSIVE ChainEnds(_, _, _)
ChainEnds(scopes, k, n) ==
  /\ k \in DOMAIN scopes
  /\ \/ scopes[k].parent = {}
     \/ n > 0 /\ ChainEnds(scopes, CHOOSE q \in scopes[k].parent : TRUE, n - 1)

\* C31: in every backend the parent chain of every scope ends at a scope
\* without parent within as many steps as there are scopes, and every parent
\* pointer names an existing scope.
C31_AcyclicScopeTree ==
  \A b \in Backends :
    LET scopes == loadIndex(b, store[b]).scopes
    IN \A k \in DOMAIN scopes :
         /\ scopes[k].parent \subseteq DOMAIN scopes
         /\ ChainEnds(scopes, k, Cardinality(DOMAIN scopes))

\* C32: for every tRPC task.complete and CLI completeTask step and every
\* backend in which the reference resolved to a task t: if t carries a
\* recurrence descriptor, exactly one task is stored afterwards that was not
\* stored before, its id was never used, it has status backlog, completed =
\* false and no completionInfo, and its id is added to the index's task list;
\* if t has no recurrence, no task is added and the list is unchanged; in both
\* cases t is still loadable and no longer in the primary area.
C32_Recurrence ==
  [][last'.op \in CompleteOps =>
       \A b \in Backends : \A t \in last'.found[b] :
         LET new == Stored(b)' \ Stored(b)
             listBefore == loadIndex(b, store[b]).tasks
             listAfter == loadIndex(b, store'[b]).tasks
         IN /\ loadTask(b, store'[b], t.id) /= {}
            /\ ~InPrimary(b, store'[b], t.id)
            /\ IF t.recurrence
                 THEN \E n \in new :
                        /\ new = {n} /\ n \notin used
                        /\ \A c \in loadTask(b, store'[b], n) :
                             c.status = "backlog" /\ ~c.completed /\ ~c.completionInfo
                        /\ listAfter = Append(listBefore, n)
                 ELSE new = {} /\ listAfter = listBefore
    ]_vars

PresenceQueries ==
  {q \in Queries : Len(q.filters) = 1 /\ q.filters[1].op \in {"exists", "not_exists"}}

\* C33: in every backend, a query with the one filter (f, exists, v) returns,
\* of the tasks the same query without the filter returns, exactly those that
\* have field f, and with (f, not_exists, v) exactly those that do not,
\* whatever v is.
C33_PresenceOperators ==
  (last.op = "queryTasks" /\ last.query \subseteq PresenceQueries) =>
    \A b \in Backends : \A q \in last.query :
      /\ ~last.result[b].error
      /\ Ids(last.result[b].tasks) =
           {t.id : t \in {x \in last.task :
              /\ x.id \in Ids(queryTasks(b, store[b], [q EXCEPT !.filters = <<>>]).tasks)
              /\ (q.filters[1].field \in DOMAIN x.fields) = (q.filters[1].op = "exists")}}

\* a field's value as text: an array's elements joined by commas, a number's
\* digits, a text as it is
ValueText(v) ==
  IF v = ArrayValue THEN <<"a", ",", "b">> ELSE IF v = ZeroValue THEN <<"0">> ELSE v

SideRows(b, id) == {f \in store[b].task_fields : f.task_id = id}

\* C34: in both SQL adapters, once saveTask(t) has returned normally, the
\* task_fields rows with task_id = t.id are exactly one row per key of
\* t.fields, holding the value as text and the normalized form (the value's
\* text when there is none), and no two of them have the same field name.
C34_SideTableProjection ==
  last.op \in {"saveTask", "saved", "saveFailed"} =>
    \A b \in {"sqlite", "postgres"} : \A t \in last.task :
      last.ok[b] =>
        /\ SideRows(b, t.id) =
             {[task_id |-> t.id, field_name |-> n,
               field_value |-> ValueText(t.fields[n].value),
               normalized_value |-> IF t.fields[n].normalized /= <<>>
                                      THEN t.fields[n].normalized
                                      ELSE ValueText(t.fields[n].value)] :
                n \in DOMAIN t.fields}
        /\ Cardinality(SideRows(b, t.id))
             = Cardinality({f.field_name : f \in SideRows(b, t.id)})

\* both SQL adapters finished a save of a task with an array value and a
\* normalized value, over a stored task that had a field the saved one lacks
C34_SavedOverOtherFields ==
  /\ last.op = "saved"
  /\ last.ok["sqlite"] /\ last.ok["postgres"]
  /\ \A t \in last.task :
       /\ \E n \in DOMAIN t.fields : t.fields[n].value = ArrayValue
       /\ \E n \in DOMAIN t.fields : t.fields[n].normalized /= <<>>
       /\ \A b \in {"sqlite", "postgres"} :
            \E f \in RowsBefore(b).side : f.field_name \notin DOMAIN t.fields

\* C35: while a PostgresStorage.saveTask call runs it holds one client more
\* than were checked out at the call, and once it has returned (after COMMIT,
\* after a failed statement and ROLLBACK, or after a ROLLBACK that failed) the
\* number of checked-out clients is what it was at the call and every client
\* acquired so far has been released once.
C35_PoolDiscipline ==
  /\ last.op = "saveTask" =>
       /\ store["pool"].checkedOut = last.result["pool"].checkedOut + 1
       /\ store["pool"].released = store["pool"].acquired - 1
  /\ last.op \in {"saved", "saveFailed"} =>
       /\ store["pool"].checkedOut = last.result["pool"].checkedOut
       /\ store["pool"].released = store["pool"].acquired

\* a call returned after one of its statements and then its ROLLBACK failed
C35_RollbackFailed ==
  /\ last.op = "saveFailed" /\ last.calls = <<"rollbackFailed">>
  /\ steps >= 2
  /\ store["pool"].acquired >= 1

\* the ids the listing operations of backend b return on store st: loadAllTasks
\* (completed ones included), getAllTaskIds, findTaskByPrefix with the full id
\* and queryTasks (completed ones included)
ListedIds(b, st) ==
  Ids(loadAllTasks(b, st, TRUE))
    \cup Range(getAllTaskIds(b, st))
    \cup {id \in IdPool : findTaskByPrefix(b, st, id) /= {}}
    \cup Ids(queryTasks(b, st, [DefaultQuery EXCEPT !.includeCompleted = TRUE]).tasks)

\* C36: in both SQL adapters, a task that is archived before a step and still
\* stored after it is returned by none of loadAllTasks, getAllTaskIds,
\* findTaskByPrefix and queryTasks after the step.
C36_ArchivedStaysArchived ==
  [][\A b \in {"sqlite", "postgres"} : \A id \in IdPool :
       (/\ loadTask(b, store[b], id) /= {} /\ ~InPrimary(b, store[b], id)
        /\ loadTask(b, store'[b], id) /= {})
         => id \notin ListedIds(b, store'[b])
    ]_vars

\* C37: in the flat-file backend no task id has a document in the tasks
\* directory and one in the archive directory at the same time.
C37_SingleLocation ==
  \A id \in IdPool :
    ~(id \in DOMAIN store["file"].primary /\ id \in DOMAIN store["file"].archive)

\* ------------------------- two clients of PostgresStorage.deleteTask
\* the first statement of deleteTask: DELETE FROM tasks WHERE id = $1 (the
\* side rows go with the row); rowCount says whether a row was deleted
PostgresStorage_deleteTask_delete(st, id) ==
  LET Others(r) == r.id /= id
  IN [st |-> [st EXCEPT !.rows = SelectSeq(st.rows, Others),
                        !.task_fields = {f \in st.task_fields : f.task_id /= id}],
      rowCount |-> IF id \in RowIds(st.rows) THEN 1 ELSE 0]

\* the last statement of deleteTask: saveIndex of the index its loadIndex
\* returned, with the id filtered out
PostgresStorage_deleteTask_save(st, index, id) ==
  SQL_saveIndex(st, [index EXCEPT !.tasks = FilterSeq(index.tasks, id)])

\* what each client deletes: different tasks, or the same one
DeleteInputs ==
  [c1 |-> {FixtureIds[1], FixtureIds[2]}, c2 |-> {FixtureIds[2], FixtureIds[3]}]

\* four stored tasks, all listed by the index; no call has started
DeleteInit ==
  \E fields \in FieldPatterns :
    LET tasks == [i \in 1..4 |-> FixtureTask(i, "backlog", fields[i])]
    IN /\ store = [b \in Backends |-> FixtureStore(b, tasks, FALSE)]
       /\ last = [NoLast EXCEPT
            !.op = "deleteTask",
            !.calls = [c \in Callers |->
                         [pc |-> "idle", id |-> <<>>, ok |-> FALSE,
                          index |-> DEFAULT_INDEX]]]
       /\ clock = 0
       /\ used = Range(FixtureIds)
       /\ steps = 0

\* a client calls deleteTask(id): its DELETE runs; with no row deleted the
\* call returns false
DeleteRow ==
  \E c \in Callers : \E id \in DeleteInputs[c] :
    LET out == PostgresStorage_deleteTask_delete(store["postgres"], id)
    IN /\ last.calls[c].pc = "idle"
       /\ store' = [store EXCEPT !.postgres = out.st]
       /\ last' = [last EXCEPT !.calls[c] =
            [pc |-> IF out.rowCount > 0 THEN "deleted" ELSE "returned",
             id |-> id, ok |-> FALSE, index |-> DEFAULT_INDEX]]
       /\ UNCHANGED <<clock, used, steps>>

\* the client's loadIndex returns
DeleteLoadIndex ==
  \E c \in Callers :
    /\ last.calls[c].pc = "deleted"
    /\ last' = [last EXCEPT !.calls[c].pc = "loaded",
                            !.calls[c].index = SQL_loadIndex(store["postgres"])]
    /\ UNCHANGED <<store, clock, used, steps>>

\* the client's saveIndex runs and the call returns true
DeleteSaveIndex ==
  \E c \in Callers :
    /\ last.calls[c].pc = "loaded"
    /\ store' = [store EXCEPT !.postgres =
         PostgresStorage_deleteTask_save(@, last.calls[c].index, last.calls[c].id)]
    /\ last' = [last EXCEPT !.calls[c].pc = "returned", !.calls[c].ok = TRUE]
    /\ UNCHANGED <<clock, used, steps>>

DeleteNext == DeleteRow \/ DeleteLoadIndex \/ DeleteSaveIndex

SpecDelete == DeleteInit /\ [][DeleteNext]_vars

\* C38: when two clients' deleteTask calls on two different stored tasks have
\* both returned true, the index of the Client-Server adapter lists neither
\* of the two ids.
C38_ConcurrentDelete ==
  (/\ \A c \in Callers : last.calls[c].pc = "returned" /\ last.calls[c].ok
   /\ last.calls["c1"].id /= last.calls["c2"].id)
    => \A c \in Callers : last.calls[c].id \notin LiveList("postgres")

\* --------------------------- the default index object of one process
MaxLoads == 4

\* FileStorage.loadIndex in a process whose DEFAULT_INDEX object currently has
\* the value default: without an index document (or with one that does not
\* parse) it returns { ...DEFAULT_INDEX }, a new object whose tasks, stats and
\* scopes are the default's own array and objects (aliased)
FileStorage_loadIndex_object(st, default) ==
  IF st.hasIndex THEN [index |-> st.index, aliased |-> FALSE]
  ELSE [index |-> default, aliased |-> TRUE]

\* a handler has changed, in place, the arrays and objects of the index that
\* loadIndex returned (push, ++, scopes[id] = ...): when they are the default's
\* own, the default has changed with them
Mutated(stores, loaded, index) ==
  IF loaded.aliased THEN [stores EXCEPT !.process.defaultIndex = index] ELSE stores

\* saveIndex after the mutation; written = FALSE is a writeFileSync that throws
Saved(stores, index, written) ==
  IF written THEN [stores EXCEPT !.file = FileStorage_saveIndex(@, index)] ELSE stores

DefaultInit ==
  /\ store = [b \in Backends \cup {"process"} |->
                IF b = "process" THEN [defaultIndex |-> DEFAULT_INDEX] ELSE InitStore(b)]
  /\ last = NoLast
  /\ clock = 0
  /\ used = {}
  /\ steps = 0

DefaultApplied(op, stores) ==
  /\ steps < MaxLoads
  /\ store' = stores
  /\ last' = [NoLast EXCEPT !.op = op]
  /\ steps' = steps + 1
  /\ UNCHANGED <<clock, used>>

\* BaseStorage.addTaskToIndex(taskId)
AddTaskToIndex ==
  \E taskId \in IdPool, written \in BOOLEAN :
    LET loaded == FileStorage_loadIndex_object(store["file"], store["process"].defaultIndex)
        index == [loaded.index EXCEPT !.tasks = Append(@, taskId)]
    IN IF taskId \notin Range(loaded.index.tasks)
         THEN DefaultApplied("addTaskToIndex",
                             Saved(Mutated(store, loaded, index), index, written))
         ELSE DefaultApplied("addTaskToIndex", store)

\* taskRouter.create, "Update index": push of the new id, byStatus.backlog++
CreateUpdateIndex ==
  \E taskId \in IdPool, written \in BOOLEAN :
    LET loaded == FileStorage_loadIndex_object(store["file"], store["process"].defaultIndex)
        index == [loaded.index EXCEPT !.tasks = Append(@, taskId),
                                      !.byStatus["backlog"] = @ + 1]
    IN /\ taskId \notin Range(loaded.index.tasks)
       /\ DefaultApplied("task.create",
                         Saved(Mutated(store, loaded, index), index, written))

\* scopeRouter.create: index.scopes[id] = scope
CreateScopeInIndex ==
  \E name \in ScopeNames, written \in BOOLEAN :
    LET loaded == FileStorage_loadIndex_object(store["file"], store["process"].defaultIndex)
        id == normalizeSubject(name)
        index == [loaded.index EXCEPT !.scopes = (id :> Scope({})) @@ @]
    IN /\ id \notin DOMAIN loaded.index.scopes
       /\ DefaultApplied("scope.create",
                         Saved(Mutated(store, loaded, index), index, written))

\* the index document is removed or no longer parses
IndexLost ==
  /\ store["file"].hasIndex
  /\ DefaultApplied("indexLost", [store EXCEPT !.file.hasIndex = FALSE])

\* a loadIndex call; last.result is what it returned, last.existed whether it
\* read the document
LoadIndexCall ==
  /\ steps < MaxLoads
  /\ last' = [NoLast EXCEPT
       !.op = "loadIndex",
       !.existed = [b \in Backends |-> store[b].hasIndex],
       !.result = [b \in Backends |->
                     IF b = "file"
                       THEN FileStorage_loadIndex_object(
                              store["file"], store["process"].defaultIndex).index
                       ELSE loadIndex(b, store[b])]]
  /\ steps' = steps + 1
  /\ UNCHANGED <<store, clock, used>>

DefaultNext ==
  AddTaskToIndex \/ CreateUpdateIndex \/ CreateScopeInIndex \/ IndexLost \/ LoadIndexCall

SpecDefault == DefaultInit /\ [][DefaultNext]_vars

\* C39: a loadIndex of the flat-file backend that finds no readable index
\* document returns an index with no task ids, no scopes, no subject
\* assignments and every status counter zero.
C39_FreshDefaultIndex ==
  (last.op = "loadIndex" /\ ~last.existed["file"]) =>
    /\ last.result["file"].tasks = <<>>
    /\ DOMAIN last.result["file"].scopes = {}
    /\ DOMAIN last.result["file"].subjectScopes = {}
    /\ \A s \in TaskStatus : last.result["file"].byStatus[s] = 0
====
